---------------------------- MODULE Spec2Model ----------------------------
(***************************************************************************)
(* Model of the Execution & Session Core of ubuntu-control-panel:          *)
(*   - the path sandbox and the file manager  (routers_fixed/files.py)     *)
(*   - the script runner and the cron schedule (routers/python_deployer.py)*)
(*   - the terminal session registry           (routers/terminal.py)       *)
(*                                                                         *)
(* A Python string is a sequence of tokens (a token stands for a run of    *)
(* characters none of which is a separator), so that str.startswith,       *)
(* str.split and the `in` substring test are computed, not assumed.        *)
(* A filesystem path is a sequence of segments, each segment a string.     *)
(***************************************************************************)
EXTENDS Naturals, Integers, Sequences, FiniteSets, TLC

VARIABLES
    chk,              \* one evaluation of the sandbox check on its own
    fs,               \* the host filesystem: the set of existing nodes
    fileOp,           \* the last file-manager request and its answer
    nFileOps,         \* number of file-manager requests served
    run,              \* the run_script request in progress
    active_sessions,  \* terminal.py: session id -> process
    conns,            \* live terminal_websocket handlers
    procs,            \* shell processes spawned so far
    lastKill,         \* the kill_terminal_session request just answered
    lastList,         \* the list_terminal_sessions request just answered
    crontab,          \* the shared crontab of the server's account
    wrappers,         \* wrapper scripts written next to scheduled scripts
    reqs,             \* schedule_script / unschedule_script requests
    dep,              \* create_virtualenv / install_requirements requests
    listing,          \* the list_scheduled request just answered
    inbound           \* write_to_process: frames received, frames written

vars == <<chk, fs, fileOp, nFileOps, run, active_sessions, conns, procs,
          lastKill, lastList, crontab, wrappers, reqs, dep,
          listing, inbound>>

---------------------------------------------------------------------------
(* Strings *)

\* str.startswith: p is a prefix of s.
StartsWith(s, p) ==
    /\ Len(p) <= Len(s)
    /\ \A i \in 1..Len(p) : s[i] = p[i]

\* The `in` test of Python on strings: sub occurs in s as a contiguous run.
Contains(s, sub) ==
    \E i \in 0..(Len(s) - Len(sub)) :
        \A j \in 1..Len(sub) : s[i + j] = sub[j]

\* The frames one write task receives.
MaxFrames == 3

\* All sequences over S of length at most n.
SeqsUpTo(S, n) == UNION {[1..k -> S] : k \in 0..n}

\* Whether sequence p is a prefix of sequence s, element by element.
IsPrefixSeq(p, s) ==
    /\ Len(p) <= Len(s)
    /\ SubSeq(s, 1, Len(p)) = p

---------------------------------------------------------------------------
(* Users *)

Alice  == <<"alice">>
AliceB == <<"alice", "_", "b">>
Admin  == <<"root">>

Tenants == {Alice, AliceB}
Users   == Tenants \cup {Admin}

\* models.py: User.role.
Role(u) == IF u = Admin THEN "admin" ELSE "user"

---------------------------------------------------------------------------
(* Paths *)

Dot     == <<".">>
DotDot  == <<"..">>
SegHome == <<"home">>
SegEtc  == <<"etc">>
SegD    == <<"d">>
SegF    == <<"f">>
SegL    == <<"l">>
SegX    == <<"x">>

\* files.py: BASE_DIR = "/home".
BASE_DIR == <<SegHome>>

\* A caller-supplied path: abs says whether the string starts with "/".
RelPath(segs) == [abs |-> FALSE, segs |-> segs]
AbsPath(segs) == [abs |-> TRUE, segs |-> segs]

\* The empty segment: what a trailing "/" leaves after the last separator.
Empty == <<>>

\* A join that appends an absolute second path to the first.
JoinAppends(a, p) == IF p.segs = <<>> THEN Append(a, Empty) ELSE a \o p.segs

\* os.path.join(a, p) for an absolute a: an absolute p replaces a, and an
\* empty p leaves a trailing separator.
Join(a, p) ==
    IF p.abs THEN p.segs
    ELSE IF p.segs = <<>> THEN Append(a, Empty)
    ELSE a \o p.segs

\* os.path.dirname / os.path.basename of an absolute path.
Dirname(segs) == IF segs = <<>> THEN <<>> ELSE SubSeq(segs, 1, Len(segs) - 1)

Basename(segs) == IF segs = <<>> THEN <<>> ELSE segs[Len(segs)]

\* os.path.normpath of an absolute path: "." and empty segments dropped,
\* ".." removes the segment before it and is dropped at the root.
RECURSIVE NormFrom(_, _)
NormFrom(stack, rest) ==
    IF rest = <<>> THEN stack
    ELSE LET s == Head(rest) IN
         IF s = Dot \/ s = Empty THEN NormFrom(stack, Tail(rest))
         ELSE IF s = DotDot
              THEN NormFrom(Dirname(stack), Tail(rest))
              ELSE NormFrom(Append(stack, s), Tail(rest))

Normpath(segs) == NormFrom(<<>>, segs)

\* os.path.abspath of an absolute path is its normpath.
Abspath(segs) == Normpath(segs)

\* The string of an absolute normalised path: "/" before every segment,
\* "/" alone for the root.
RECURSIVE PathStrFrom(_)
PathStrFrom(segs) ==
    IF segs = <<>> THEN <<>>
    ELSE <<"/">> \o Head(segs) \o PathStrFrom(Tail(segs))

PathStr(segs) == IF segs = <<>> THEN <<"/">> ELSE PathStrFrom(segs)

\* files.py get_user_dir: os.path.join(BASE_DIR, username).
UserDir(u) == Append(BASE_DIR, u)

\* files.py is_safe_path: abs_path.startswith(abs_user_dir), on strings.
IsSafePath(path, user_dir) ==
    StartsWith(PathStr(Abspath(path)), PathStr(Abspath(user_dir)))

\* Descendant-or-self by path segments: what "inside the tenant root" means.
Inside(root, p) == IsPrefixSeq(root, p)

---------------------------------------------------------------------------
(* The host filesystem, as the os and shutil calls of files.py see it *)

DirNode  == [kind |-> "dir", target |-> <<>>]
FileNode == [kind |-> "file", target |-> <<>>]
LinkNode(t) == [kind |-> "link", target |-> t]

IsDirAt(f, p) == p = <<>> \/ (p \in DOMAIN f /\ f[p].kind = "dir")

\* Path resolution of the kernel: segment by segment from the root, ".."
\* taken physically, a symbolic link replaced by its target (the last
\* segment's only if followLast). ok is FALSE when a segment is looked up in
\* something that is not a directory. links: the links passed through.
RECURSIVE WalkFrom(_, _, _, _, _)
WalkFrom(f, cur, rest, followLast, links) ==
    IF rest = <<>> THEN [ok |-> TRUE, path |-> cur, links |-> links]
    ELSE IF ~IsDirAt(f, cur) THEN [ok |-> FALSE, path |-> cur, links |-> links]
    ELSE LET s    == Head(rest)
             more == Tail(rest)
             nxt  == Append(cur, s)
         IN IF s = Dot \/ s = Empty
            THEN WalkFrom(f, cur, more, followLast, links)
            ELSE IF s = DotDot
            THEN WalkFrom(f, Dirname(cur), more, followLast, links)
            ELSE IF /\ nxt \in DOMAIN f
                    /\ f[nxt].kind = "link"
                    /\ (more # <<>> \/ followLast)
            THEN WalkFrom(f, f[nxt].target, more, followLast, links \cup {nxt})
            ELSE WalkFrom(f, nxt, more, followLast, links)

Walk(f, segs, followLast) == WalkFrom(f, <<>>, segs, followLast, {})

\* os.path.exists and os.path.isdir (both follow links).
Exists(f, segs) ==
    LET w == Walk(f, segs, TRUE) IN w.ok /\ (w.path = <<>> \/ w.path \in DOMAIN f)

IsDir(f, segs) ==
    LET w == Walk(f, segs, TRUE) IN w.ok /\ IsDirAt(f, w.path)

\* os.makedirs(segs, exist_ok): every missing directory on the way is made.
\* Fails on a segment under a non-directory, and on an existing last
\* segment unless exist_ok and it is a directory.
RECURSIVE MakeFrom(_, _, _, _, _)
MakeFrom(f, cur, rest, exist_ok, made) ==
    IF rest = <<>> THEN [ok |-> TRUE, fs |-> f, made |-> made]
    ELSE IF ~IsDirAt(f, cur) THEN [ok |-> FALSE, fs |-> f, made |-> made]
    ELSE LET s    == Head(rest)
             more == Tail(rest)
             nxt  == Append(cur, s)
             last == \A i \in 1..Len(more) : more[i] \in {Dot, Empty}
         IN IF s = Dot \/ s = Empty
            THEN MakeFrom(f, cur, more, exist_ok, made)
            ELSE IF s = DotDot
            THEN MakeFrom(f, Dirname(cur), more, exist_ok, made)
            ELSE IF nxt \notin DOMAIN f
            THEN MakeFrom((nxt :> DirNode) @@ f, nxt, more, exist_ok,
                          made \cup {nxt})
            ELSE IF last /\ ~(exist_ok /\ IsDir(f, nxt))
            THEN [ok |-> FALSE, fs |-> f, made |-> made]
            ELSE IF f[nxt].kind = "link"
            THEN MakeFrom(f, f[nxt].target, more, exist_ok, made)
            ELSE MakeFrom(f, nxt, more, exist_ok, made)

MakeDirs(f, segs, exist_ok) == MakeFrom(f, <<>>, segs, exist_ok, {})

\* The nodes of f without p and everything below it.
RemoveTree(f, p) ==
    [q \in {q \in DOMAIN f : ~IsPrefixSeq(p, q)} |-> f[q]]

\* The nodes of f with p and everything below it now at d.
MoveTree(f, p, d) ==
    LET keep  == {q \in DOMAIN f : ~IsPrefixSeq(p, q)}
        moved == {d \o SubSeq(q, Len(p) + 1, Len(q)) :
                     q \in {q \in DOMAIN f : IsPrefixSeq(p, q)}}
    IN [q \in keep \cup moved |->
            IF q \in moved THEN f[p \o SubSeq(q, Len(d) + 1, Len(q))] ELSE f[q]]

\* files.py get_user_dir: the tenant root is made on every access.
GetUserDir(f, u) == MakeDirs(f, UserDir(u), TRUE)

---------------------------------------------------------------------------
(* The file manager: routers_fixed/files.py *)

\* A handler's answer: the HTTP status, the filesystem it leaves, the
\* physical paths it created, wrote, moved or deleted, and the path it
\* handed to the sandbox check.
Answer(status, f, effects, checked) ==
    [status |-> status, fs |-> f, effects |-> effects, checked |-> checked]

\* Whether the last segment of a raw path names the directory itself or its
\* parent, which rename(2) and rmdir(2) refuse.
EndsInDots(segs) == segs # <<>> /\ segs[Len(segs)] \in {Dot, DotDot}

\* files.py create_directory.
CreateDirectory(f0, u, path, name) ==
    LET g          == GetUserDir(f0, u)
        f          == g.fs
        user_dir   == UserDir(u)
        parent_dir == Join(user_dir, path)
        new_dir    == Join(parent_dir, name)
        mk         == MakeDirs(f, new_dir, FALSE)
    IN IF ~g.ok THEN Answer(500, f0, {}, parent_dir)
       ELSE IF ~IsSafePath(parent_dir, user_dir) THEN Answer(403, f, g.made, parent_dir)
       ELSE IF ~Exists(f, parent_dir) THEN Answer(404, f, g.made, parent_dir)
       ELSE IF ~IsDir(f, parent_dir) THEN Answer(400, f, g.made, parent_dir)
       ELSE IF Exists(f, new_dir) THEN Answer(400, f, g.made, parent_dir)
       ELSE IF ~mk.ok THEN Answer(500, mk.fs, g.made \cup mk.made, parent_dir)
       ELSE Answer(200, mk.fs, g.made \cup mk.made, parent_dir)

\* files.py upload_file: open(file_path, "wb") creates or truncates the file
\* the joined path resolves to.
UploadFile(f0, u, path, filename) ==
    LET g          == GetUserDir(f0, u)
        f          == g.fs
        user_dir   == UserDir(u)
        target_dir == Join(user_dir, path)
        file_path  == Join(target_dir, filename)
        w          == Walk(f, file_path, TRUE)
    IN IF ~g.ok THEN Answer(500, f0, {}, target_dir)
       ELSE IF ~IsSafePath(target_dir, user_dir) THEN Answer(403, f, g.made, target_dir)
       ELSE IF ~Exists(f, target_dir) THEN Answer(404, f, g.made, target_dir)
       ELSE IF ~IsDir(f, target_dir) THEN Answer(400, f, g.made, target_dir)
       ELSE IF \/ ~w.ok
               \/ IsDirAt(f, w.path)
               \/ ~IsDirAt(f, Dirname(w.path))
       THEN Answer(500, f, g.made, target_dir)
       ELSE Answer(200, (w.path :> FileNode) @@ f, g.made \cup {w.path}, target_dir)

\* files.py delete_item: shutil.rmtree for a directory (it refuses a
\* symbolic link, and cannot remove "." or ".." itself after emptying it),
\* os.remove otherwise.
DeleteItem(f0, u, path) ==
    LET g         == GetUserDir(f0, u)
        f         == g.fs
        user_dir  == UserDir(u)
        item_path == Join(user_dir, path)
        w         == Walk(f, item_path, FALSE)
        below     == {q \in DOMAIN f : IsPrefixSeq(w.path, q) /\ q # w.path}
    IN IF ~g.ok THEN Answer(500, f0, {}, item_path)
       ELSE IF ~IsSafePath(item_path, user_dir) THEN Answer(403, f, g.made, item_path)
       ELSE IF ~Exists(f, item_path) THEN Answer(404, f, g.made, item_path)
       ELSE IF IsDir(f, item_path)
            THEN IF w.path \in DOMAIN f /\ f[w.path].kind = "link"
                 THEN Answer(500, f, g.made, item_path)
                 ELSE IF EndsInDots(item_path) \/ w.path = <<>>
                 THEN Answer(500, [q \in DOMAIN f \ below |-> f[q]],
                             g.made \cup below, item_path)
                 ELSE Answer(200, RemoveTree(f, w.path),
                             g.made \cup {w.path} \cup below, item_path)
            ELSE Answer(200, [q \in DOMAIN f \ {w.path} |-> f[q]],
                        g.made \cup {w.path}, item_path)

\* files.py rename_item: the destination is joined from the parent of the
\* checked path and new_name, and goes to os.rename as it is.
RenameItem(f0, u, path, new_name) ==
    LET g          == GetUserDir(f0, u)
        f          == g.fs
        user_dir   == UserDir(u)
        item_path  == Join(user_dir, path)
        parent_dir == Dirname(item_path)
        new_path   == Join(parent_dir, new_name)
        src        == Walk(f, item_path, FALSE)
        dst        == Walk(f, new_path, FALSE)
    IN IF ~g.ok THEN Answer(500, f0, {}, item_path)
       ELSE IF ~IsSafePath(item_path, user_dir) THEN Answer(403, f, g.made, item_path)
       ELSE IF ~Exists(f, item_path) THEN Answer(404, f, g.made, item_path)
       ELSE IF Exists(f, new_path) THEN Answer(400, f, g.made, item_path)
       ELSE IF \/ EndsInDots(item_path) \/ EndsInDots(new_path)
               \/ src.path = <<>>
               \/ ~dst.ok
               \/ ~IsDirAt(f, Dirname(dst.path))
               \/ IsPrefixSeq(src.path, dst.path)
       THEN Answer(500, f, g.made, item_path)
       ELSE Answer(200, MoveTree(f, src.path, dst.path),
                   g.made \cup {src.path, dst.path}, item_path)

\* terminal.py terminal_websocket spawns bash in the tenant's directory: the
\* tenant can make a symbolic link there (ln -s /etc l).
LinkTargets == {<<SegEtc>>}

ShellMakesLink(f0, u, t) ==
    LET g == GetUserDir(f0, u)
        l == Append(UserDir(u), SegL)
    IN IF g.ok /\ l \notin DOMAIN g.fs
       THEN (l :> LinkNode(t)) @@ g.fs
       ELSE g.fs

\* Whether the path handed to the sandbox check passes through a symbolic
\* link that lies inside the tenant root and points outside it.
LinkOut(f, u, checked) ==
    \E l \in Walk(f, checked, TRUE).links :
        Inside(UserDir(u), l) /\ ~Inside(UserDir(u), f[l].target)

MaxFileOps == 2

FilePaths ==
    {RelPath(<<>>), RelPath(<<Dot>>), RelPath(<<SegD>>), RelPath(<<SegL>>),
     RelPath(<<DotDot, AliceB>>)}

FileNames ==
    {RelPath(<<SegD>>), RelPath(<<SegX>>),
     RelPath(<<DotDot, DotDot, SegEtc, SegX>>), AbsPath(<<SegEtc, SegX>>)}

FsInit == (<<SegHome>> :> DirNode) @@ (<<SegEtc>> :> DirNode)

NoFileOp ==
    [op |-> "none", user |-> Alice, status |-> 0, effects |-> {}, linkOut |-> FALSE]

FileServed(op, u, ans) ==
    /\ nFileOps < MaxFileOps
    /\ nFileOps' = nFileOps + 1
    /\ fs' = ans.fs
    /\ fileOp' = [op |-> op, user |-> u, status |-> ans.status,
                  effects |-> ans.effects,
                  linkOut |-> LinkOut(fs, u, ans.checked)]
    /\ UNCHANGED <<inbound, listing, dep, chk, run, active_sessions, conns, procs, lastKill, lastList,
                   crontab, wrappers, reqs>>

Mkdir ==
    \E u \in Tenants, path \in FilePaths, name \in FileNames :
        FileServed("mkdir", u, CreateDirectory(fs, u, path, name))

Upload ==
    \E u \in Tenants, path \in FilePaths, filename \in FileNames :
        FileServed("upload", u, UploadFile(fs, u, path, filename))

Delete ==
    \E u \in Tenants, path \in FilePaths :
        FileServed("delete", u, DeleteItem(fs, u, path))

Rename ==
    \E u \in Tenants, path \in FilePaths, new_name \in FileNames :
        FileServed("rename", u, RenameItem(fs, u, path, new_name))

ShellLink ==
    \E u \in Tenants, t \in LinkTargets :
        /\ fs' = ShellMakesLink(fs, u, t)
        /\ fs' # fs
        /\ UNCHANGED <<inbound, listing, dep, chk, fileOp, nFileOps, run, active_sessions, conns, procs,
                       lastKill, lastList, crontab, wrappers, reqs>>

\* The archive of a tenant.
SegZip == <<"a.zip">>

\* zipfile.extractall, one member: the "", "." and ".." parts of the name
\* are dropped, the rest is joined to the extraction directory and
\* normalised; the directories above the target are made and the target is
\* opened for writing, through whatever links are on the way.
ExtractMember(f, extract_path, name) ==
    LET arcname == SelectSeq(name.segs, LAMBDA seg : seg \notin {Empty, Dot, DotDot})
        target  == Normpath(extract_path \o arcname)
        upper   == Dirname(target)
        mk      == IF Exists(f, upper) THEN [ok |-> TRUE, fs |-> f, made |-> {}]
                   ELSE MakeDirs(f, upper, FALSE)
        w       == Walk(mk.fs, target, TRUE)
    IN IF ~mk.ok THEN [ok |-> FALSE, fs |-> mk.fs, written |-> {}]
       ELSE IF \/ ~w.ok
               \/ IsDirAt(mk.fs, w.path)
               \/ ~IsDirAt(mk.fs, Dirname(w.path))
       THEN [ok |-> FALSE, fs |-> mk.fs, written |-> {}]
       ELSE [ok |-> TRUE, fs |-> (w.path :> FileNode) @@ mk.fs, written |-> {w.path}]

\* zipfile.extractall: the members in the order of the archive; the first
\* that fails ends it, with the members before it written.
RECURSIVE ExtractAll(_, _, _, _)
ExtractAll(f, extract_path, names, written) ==
    IF names = <<>> THEN [ok |-> TRUE, fs |-> f, written |-> written]
    ELSE LET m == ExtractMember(f, extract_path, Head(names)) IN
         IF ~m.ok THEN [ok |-> FALSE, fs |-> m.fs, written |-> written]
         ELSE ExtractAll(m.fs, extract_path, Tail(names), written \cup m.written)

\* The answer of extract_archive: the directory extracted to, the names of
\* the archive that was opened and the files written from it.
ExtractAnswer(status, f, effects, extract_path, names, written) ==
    [status |-> status, fs |-> f, effects |-> effects,
     extract_path |-> extract_path, names |-> names, written |-> written]

\* files.py extract_archive. names: the file entries of the archive, as
\* the tenant made it. The 403 raised inside the try for an entry that
\* fails the check is caught by `except Exception` and answered 500.
ExtractArchive(f0, u, archive_path, extract_to, names) ==
    LET g                 == GetUserDir(f0, u)
        f                 == g.fs
        user_dir          == UserDir(u)
        archive_full_path == Join(user_dir, archive_path)
        extract_path      == IF extract_to = RelPath(<<>>)
                             THEN Dirname(archive_full_path)
                             ELSE Join(user_dir, extract_to)
        mk                == MakeDirs(f, extract_path, TRUE)
        ex                == ExtractAll(mk.fs, extract_path, names, {})
    IN IF ~g.ok THEN ExtractAnswer(500, f0, {}, <<>>, <<>>, {})
       ELSE IF ~IsSafePath(archive_full_path, user_dir)
       THEN ExtractAnswer(403, f, g.made, <<>>, <<>>, {})
       ELSE IF ~Exists(f, archive_full_path)
       THEN ExtractAnswer(404, f, g.made, <<>>, <<>>, {})
       ELSE IF ~IsSafePath(extract_path, user_dir)
       THEN ExtractAnswer(403, f, g.made, <<>>, <<>>, {})
       ELSE IF ~mk.ok
       THEN ExtractAnswer(500, mk.fs, g.made \cup mk.made, extract_path, <<>>, {})
       ELSE IF IsDir(mk.fs, archive_full_path)
       THEN ExtractAnswer(500, mk.fs, g.made \cup mk.made, extract_path, <<>>, {})
       ELSE IF \E i \in 1..Len(names) :
                  ~IsSafePath(Join(extract_path, names[i]), user_dir)
       THEN ExtractAnswer(500, mk.fs, g.made \cup mk.made, extract_path, names, {})
       ELSE ExtractAnswer(IF ex.ok THEN 200 ELSE 500, ex.fs,
                          g.made \cup mk.made \cup ex.written,
                          extract_path, names, ex.written)

\* The archive_path and extract_to of the requests, and the archives.
ArchivePaths == {RelPath(<<SegZip>>), RelPath(<<SegD>>)}

ExtractTos ==
    {RelPath(<<>>), RelPath(<<SegD>>), RelPath(<<DotDot, AliceB>>),
     RelPath(<<DotDot, DotDot, SegEtc>>)}

Archives ==
    { <<RelPath(<<SegX>>)>>,
      <<RelPath(<<SegX>>), RelPath(<<DotDot, DotDot, SegEtc, SegX>>)>>,
      <<RelPath(<<DotDot, AliceB, SegX>>)>>,
      <<AbsPath(<<SegEtc, SegX>>)>> }

Extract ==
    \E u \in Tenants, archive_path \in ArchivePaths, extract_to \in ExtractTos,
       names \in Archives :
        LET ans == ExtractArchive(fs, u, archive_path, extract_to, names) IN
        /\ nFileOps < MaxFileOps
        /\ nFileOps' = nFileOps + 1
        /\ fs' = ans.fs
        /\ fileOp' = [op |-> "extract", user |-> u, status |-> ans.status,
                      effects |-> ans.effects,
                      linkOut |-> LinkOut(fs, u, ans.extract_path),
                      extract_path |-> ans.extract_path, names |-> ans.names,
                      written |-> ans.written]
        /\ UNCHANGED <<inbound, listing, dep, chk, run, active_sessions, conns,
                       procs, lastKill, lastList, crontab, wrappers, reqs>>

---------------------------------------------------------------------------
(* The script runner: routers/python_deployer.py run_script *)

MaxExit == 1
MaxOut  == 1

\* Bytes a child can write: 97 is "a", 255 never occurs in UTF-8.
ByteValues == {97, 255}

ExitCodes == 0..MaxExit

Outputs == SeqsUpTo(ByteValues, MaxOut)

\* bytes.decode(): UTF-8, errors="strict". Only one-byte code points occur
\* in ByteValues; an invalid byte raises UnicodeDecodeError.
DecodeOk(bytes) == \A i \in 1..Len(bytes) : bytes[i] < 128

Decode(bytes) == [i \in 1..Len(bytes) |-> IF bytes[i] = 97 THEN "a" ELSE "?"]

\* str.encode() of what Decode returns.
Utf8(str) == [i \in 1..Len(str) |-> IF str[i] = "a" THEN 97 ELSE 63]

SegScript  == <<"s.py">>
SegMissing == <<"m.py">>

RunPaths ==
    {RelPath(<<SegScript>>), RelPath(<<SegMissing>>),
     RelPath(<<DotDot, DotDot, SegEtc, SegScript>>)}

\* What the launched script does: whether it ends before the timeout, what
\* it has written to stdout and stderr by then, and its exit code if it
\* ends.
Behaviours ==
    [exits : BOOLEAN, code : ExitCodes, out : Outputs, err : Outputs]

NoChild == [exits |-> FALSE, code |-> 0, out |-> <<>>, err |-> <<>>]

NoResp ==
    [status |-> 0, returncode |-> 0, stdout |-> <<>>, stderr |-> <<>>,
     detail |-> "none"]

ErrorResp(status, detail) ==
    [status |-> status, returncode |-> 0, stdout |-> <<>>, stderr |-> <<>>,
     detail |-> detail]

RunIdle ==
    [pc |-> "idle", user |-> Alice, script |-> <<>>, child |-> NoChild,
     tmp |-> FALSE, killed |-> FALSE, outcome |-> "none", resp |-> NoResp]

\* run_script, lines 309-313: `except Exception as e` turns whatever the try
\* body raised, an HTTPException included, into a 500.
RunExcept(e) == ErrorResp(500, "Failed to run script")

\* run_script, lines 301-307: the result, whatever the exit code.
RunResult(child) ==
    [status |-> 200, returncode |-> child.code, stdout |-> Decode(child.out),
     stderr |-> Decode(child.err), detail |-> "result"]

\* run_script, lines 242-255: the sandbox check and the existence check.
\* python_deployer.py imports get_user_dir and is_safe_path from
\* app.routers.files; they are modelled by those of routers_fixed/files.py.
RunRequest ==
    \E u \in Tenants, p \in RunPaths :
        LET g        == GetUserDir(fs, u)
            user_dir == UserDir(u)
            full     == Join(user_dir, p)
        IN /\ run.pc = "idle"
           /\ fs' = g.fs
           /\ run' =
                IF ~g.ok
                THEN [run EXCEPT !.pc = "done", !.user = u,
                                 !.resp = ErrorResp(500, "Internal Server Error")]
                ELSE IF ~IsSafePath(full, user_dir)
                THEN [run EXCEPT !.pc = "done", !.user = u, !.script = full,
                                 !.resp = ErrorResp(403, "Access denied to this path")]
                ELSE IF ~Exists(g.fs, full)
                THEN [run EXCEPT !.pc = "done", !.user = u, !.script = full,
                                 !.resp = ErrorResp(404, "Script not found")]
                ELSE [run EXCEPT !.pc = "spawn", !.user = u, !.script = full]
           /\ UNCHANGED <<inbound, listing, dep, chk, fileOp, nFileOps, active_sessions, conns, procs,
                          lastKill, lastList, crontab, wrappers, reqs>>

\* run_script, lines 272-283, create_subprocess_exec raising (no such
\* interpreter, no permission): caught at line 309; the temporary file is
\* unlinked in the finally clause.
RunLaunchFails ==
    /\ run.pc = "spawn"
    /\ run' = [run EXCEPT !.pc = "done", !.tmp = FALSE, !.outcome = "launch_failed",
                          !.resp = RunExcept([class |-> "OSError", status |-> 0,
                                              detail |-> "launch"])]
    /\ UNCHANGED <<inbound, listing, dep, chk, fs, fileOp, nFileOps, active_sessions, conns, procs,
                   lastKill, lastList, crontab, wrappers, reqs>>

\* run_script, lines 272-283: the temporary file and the child process.
RunSpawn ==
    \E b \in Behaviours :
        /\ run.pc = "spawn"
        /\ run' = [run EXCEPT !.pc = "wait", !.tmp = TRUE, !.child = b]
        /\ UNCHANGED <<inbound, listing, dep, chk, fs, fileOp, nFileOps, active_sessions, conns, procs,
                       lastKill, lastList, crontab, wrappers, reqs>>

\* run_script, lines 286 and 294-307: communicate() returns before the
\* timeout; the activity is logged and the result built, decode() raising
\* into the except clause of line 309.
RunChildExits ==
    /\ run.pc = "wait"
    /\ run.child.exits
    /\ run' = [run EXCEPT
                 !.pc = "done", !.tmp = FALSE, !.outcome = "exited",
                 !.resp = IF DecodeOk(run.child.out) /\ DecodeOk(run.child.err)
                          THEN RunResult(run.child)
                          ELSE RunExcept([class |-> "UnicodeDecodeError",
                                          status |-> 0, detail |-> "decode"])]
    /\ UNCHANGED <<inbound, listing, dep, chk, fs, fileOp, nFileOps, active_sessions, conns, procs,
                   lastKill, lastList, crontab, wrappers, reqs>>

\* An answer to a timeout that bears what the child had written.
TimeoutAnswerWithOutput(child) ==
    [ErrorResp(500, "Failed to run script") EXCEPT
        !.stdout = Decode(child.out), !.stderr = Decode(child.err)]

\* run_script, lines 286-292 and 309-313: wait_for cancels communicate(),
\* whose result is never bound; the HTTPException(408), built from the
\* timeout alone, is raised inside the try body of line 272.
TimeoutAnswer(child) ==
    RunExcept([class |-> "HTTPException", status |-> 408,
               detail |-> "Script execution timed out"])

\* A handler that awaits the end of the child after the timeout.
AwaitsChild(child) == IF child.exits THEN "done" ELSE "wait"

\* run_script, lines 288-292: after process.kill() the handler raises at
\* once; it does not await process.wait().
AfterKill(child) == "done"

\* run_script, lines 287-292: the timer wins and the child is sent SIGKILL.
RunTimesOut ==
    /\ run.pc = "wait"
    /\ ~run.child.exits
    /\ run' = [run EXCEPT
                 !.pc = AfterKill(run.child), !.tmp = FALSE, !.killed = TRUE,
                 !.outcome = "timed_out",
                 !.resp = TimeoutAnswer(run.child)]
    /\ UNCHANGED <<inbound, listing, dep, chk, fs, fileOp, nFileOps, active_sessions, conns, procs,
                   lastKill, lastList, crontab, wrappers, reqs>>

---------------------------------------------------------------------------
(* The terminal sessions: routers/terminal.py *)

MaxSessions == 2

\* id(websocket): the address of a live connection object. Addresses are
\* only compared with each other, so a connection gets either an address
\* that an earlier connection had or the next one never used.
Addrs == 1..MaxSessions

\* A session id made of the user name alone.
SessionIdOfUser(username, addr) == username \o <<"_">>

\* terminal_websocket, line 55: f"{username}_{id(websocket)}".
SessionId(username, addr) == username \o <<"_">> \o <<ToString(addr)>>

\* str.split("_")[0]: what precedes the first "_".
RECURSIVE SplitFirst(_)
SplitFirst(str) ==
    IF str = <<>> \/ Head(str) = "_" THEN <<>>
    ELSE <<Head(str)>> \o SplitFirst(Tail(str))

\* No kill request, or no list request, has just been answered.
NoKill ==
    [requester |-> <<>>, sid |-> <<>>, owner |-> <<>>, found |-> FALSE,
     again |-> FALSE, status |-> 0, signalled |-> FALSE, removed |-> FALSE]

NoList == [requester |-> <<>>, sessions |-> {}, asked |-> FALSE]

Pids == 1..Len(procs)

\* The ids a kill request names: those that were given to a session.
KillIds == {procs[p].sid : p \in Pids}

\* del d[k].
Del(d, k) == [x \in DOMAIN d \ {k} |-> d[x]]

\* d[k] = v.
Put(d, k, v) == (k :> v) @@ d

UsedAddrs == {procs[p].addr : p \in Pids}

\* The process that was last registered under a session id, 0 if none was.
LatestProc(sid) ==
    IF \E p \in Pids : procs[p].sid = sid
    THEN CHOOSE p \in Pids :
            /\ procs[p].sid = sid
            /\ \A q \in Pids : procs[q].sid = sid => q <= p
    ELSE 0

\* terminal_websocket, lines 54-83: the session id, the shell process, the
\* registration, and the two bridging tasks.
Open ==
    \E u \in Tenants, a \in Addrs :
        LET sid == SessionId(u, a)
            pid == Len(procs) + 1
        IN /\ Len(procs) < MaxSessions
           /\ \A c \in conns : c.addr # a
           /\ a <= Cardinality(UsedAddrs) + 1
           /\ procs' = Append(procs, [user |-> u, addr |-> a, sid |-> sid,
                                      state |-> "running", termCalls |-> 0,
                                      ownerKilled |-> FALSE, input |-> {}])
           /\ active_sessions' = Put(active_sessions, sid, pid)
           /\ conns' = conns \cup {[user |-> u, addr |-> a, sid |-> sid,
                                    proc |-> pid, pc |-> "bridge",
                                    got |-> {}]}
           /\ lastKill' = NoKill
           /\ lastList' = NoList
           /\ UNCHANGED <<inbound, listing, dep, chk, fs, fileOp, nFileOps, run, crontab, wrappers, reqs>>

\* A bridging task that uses the process spawned last, as it would with
\* the handle kept in a module-level variable.
SharedProcess(c) == Len(procs)

\* terminal_websocket, lines 78-83: both tasks get the handler's own
\* websocket and process as arguments.
BridgeProcess(c) == c.proc

\* write_to_process, lines 141-155: a frame from the handler's websocket is
\* written to the input of the task's process. input: the sessions whose
\* frames a process has been written.
WriteToProcess ==
    \E c \in conns :
        /\ c.pc = "bridge"
        /\ procs[BridgeProcess(c)].state = "running"
        /\ procs' = [procs EXCEPT ![BridgeProcess(c)].input = @ \cup {c.proc}]
        /\ procs' # procs
        /\ lastKill' = NoKill
        /\ lastList' = NoList
        /\ UNCHANGED <<inbound, listing, dep, chk, fs, fileOp, nFileOps, run, active_sessions, conns,
                       crontab, wrappers, reqs>>

\* The frames a client sends. "__RESIZE" and ":" are the tokens of the
\* prefix `__RESIZE:`; the other tokens stand for runs of characters
\* without a colon.
ResizePrefix == <<"__RESIZE", ":">>

Frames ==
    { <<"ls">>,
      <<"a", ":", "b", ":", "c">>,
      <<"__RESIZE", ":", "80", ":", "24">>,
      <<"__RESIZE", ":", "80">>,
      <<"__RESIZE", ":", "80", ":", "24", ":", "1">>,
      <<"__RESIZE", ":">> }

\* message.split(":"): the parts between the colons, empty parts included.
RECURSIVE SplitColon(_)
SplitColon(m) ==
    IF m = <<>> THEN << <<>> >>
    ELSE IF Head(m) = ":" THEN << <<>> >> \o SplitColon(Tail(m))
    ELSE LET rest == SplitColon(Tail(m))
         IN  << <<Head(m)>> \o Head(rest) >> \o Tail(rest)

\* write_to_process, lines 144-151: the frame is skipped when it starts
\* with the prefix and `_, cols, rows = message.split(":")` unpacks, which
\* it does for exactly three parts; the ValueError of any other count is
\* passed over and the frame goes on to the write.
Consumed(m) ==
    /\ StartsWith(m, ResizePrefix)
    /\ Len(SplitColon(m)) = 3

\* No frame has been received.
NoInbound == [recv |-> <<>>, stdin |-> <<>>]

\* write_to_process, lines 141-155: one turn of the loop. recv: the frames
\* in the order they arrived; stdin: the frames written to the input of the
\* process, in the order of the writes. The frames are ASCII, so
\* message.encode() gives their characters as bytes.
ReceiveText ==
    \E m \in Frames :
        /\ Len(inbound.recv) < MaxFrames
        /\ inbound' = [recv  |-> Append(inbound.recv, m),
                       stdin |-> IF Consumed(m) THEN inbound.stdin
                                 ELSE Append(inbound.stdin, m)]
        /\ UNCHANGED <<listing, dep, chk, fs, fileOp, nFileOps, run,
                       active_sessions, conns, procs, lastKill, lastList,
                       crontab, wrappers, reqs>>

\* read_from_process, lines 121-125: a chunk of the task's process is sent
\* on the handler's websocket. got: the processes whose output a
\* connection has been sent.
ReadFromProcess ==
    \E c \in conns :
        /\ c.pc = "bridge"
        /\ conns' = (conns \ {c}) \cup {[c EXCEPT !.got = @ \cup {BridgeProcess(c)}]}
        /\ conns' # conns
        /\ lastKill' = NoKill
        /\ lastList' = NoList
        /\ UNCHANGED <<inbound, listing, dep, chk, fs, fileOp, nFileOps, run, active_sessions, procs,
                       crontab, wrappers, reqs>>

\* The shell ends, on its own (exit typed into it) or after a signal.
\* read_from_process, lines 121-123: its output ends, which ends the read
\* task of the handler that bridges it.
ProcExits ==
    \E p \in Pids :
        /\ procs[p].state = "running"
        /\ procs' = [procs EXCEPT ![p].state = "exited"]
        /\ conns' = {IF c.proc = p THEN [c EXCEPT !.pc = "cleanup"] ELSE c :
                        c \in conns}
        /\ lastKill' = NoKill
        /\ lastList' = NoList
        /\ UNCHANGED <<inbound, listing, dep, chk, fs, fileOp, nFileOps, run, active_sessions,
                       crontab, wrappers, reqs>>

\* terminal_websocket, lines 87-94, and write_to_process, line 141: the
\* channel is closed, the write task is done and the read task is cancelled.
FlowEnds ==
    \E c \in conns :
        /\ c.pc = "bridge"
        /\ conns' = (conns \ {c}) \cup {[c EXCEPT !.pc = "cleanup"]}
        /\ lastKill' = NoKill
        /\ lastList' = NoList
        /\ UNCHANGED <<inbound, listing, dep, chk, fs, fileOp, nFileOps, run, active_sessions, procs,
                       crontab, wrappers, reqs>>

\* process.terminate(): a running process is signalled; for one that has
\* ended the call either does nothing or raises ProcessLookupError,
\* depending on whether the transport is closed yet.
TerminateOutcomes(p) ==
    IF procs[p].state = "running" THEN {"signalled"} ELSE {"noop", "raised"}

Terminated(p) == [procs EXCEPT ![p].termCalls = @ + 1]

\* A cleanup that tests the registry before the tasks are awaited and acts
\* on the answer afterwards.
CleanupFindsEarlier(c) == TRUE

\* terminal_websocket, line 99: `if session_id in active_sessions`.
CleanupFinds(c) == c.sid \in DOMAIN active_sessions

\* A cleanup that puts the entry of its session back when it finds none.
CleanupRestores(c, o) ==
    IF c.sid \in DOMAIN active_sessions
    THEN (IF o = "raised" THEN active_sessions ELSE Del(active_sessions, c.sid))
    ELSE Put(active_sessions, c.sid, c.proc)

\* terminal_websocket, lines 99-101: the registry after the finally clause.
\* The entry is deleted when the test finds it and terminate() returns; an
\* exception of terminate() leaves it in the registry.
CleanupRegistry(c, o) ==
    IF o \in {"signalled", "noop"} /\ c.sid \in DOMAIN active_sessions
    THEN Del(active_sessions, c.sid)
    ELSE active_sessions

\* terminal_websocket, lines 97-104: the finally clause.
Cleanup ==
    \E c \in conns :
        /\ c.pc = "cleanup"
        /\ conns' = conns \ {c}
        /\ \E o \in (IF CleanupFinds(c) THEN TerminateOutcomes(c.proc)
                      ELSE {"skipped"}) :
              /\ procs' = IF o \in {"signalled", "noop"}
                          THEN Terminated(c.proc) ELSE procs
              /\ active_sessions' = CleanupRegistry(c, o)
        /\ lastKill' = NoKill
        /\ lastList' = NoList
        /\ UNCHANGED <<inbound, listing, dep, chk, fs, fileOp, nFileOps, run, crontab, wrappers, reqs>>

\* A kill that leaves the entry in the registry.
KillKeepsEntry(sid) == active_sessions

\* kill_terminal_session, line 190: del active_sessions[session_id].
KillDeletes(sid) == Del(active_sessions, sid)

\* kill_terminal_session, lines 170-204. The answer is recorded with what
\* the request met: the process registered under the id and its owner, and
\* whether the id's session had already been killed by its owner.
Kill ==
    \E r \in Users, sid \in KillIds :
        LET username == SplitFirst(sid)
            found    == sid \in DOMAIN active_sessions
            pid      == IF found THEN active_sessions[sid] ELSE 0
            owner    == IF found THEN procs[pid].user ELSE <<>>
            latest   == LatestProc(sid)
            again    == /\ latest # 0
                        /\ procs[latest].ownerKilled
                        /\ procs[latest].user = r
            met      == [requester |-> r, sid |-> sid, owner |-> owner,
                         found |-> found, again |-> again, status |-> 0,
                         signalled |-> FALSE, removed |-> FALSE]
        IN /\ IF r # username /\ Role(r) # "admin"
              THEN /\ lastKill' = [met EXCEPT !.status = 403, !.signalled = FALSE,
                                              !.removed = FALSE]
                   /\ UNCHANGED <<procs, active_sessions>>
              ELSE IF found
              THEN \E o \in TerminateOutcomes(pid) :
                      IF o = "raised"
                      THEN /\ lastKill' = [met EXCEPT !.status = 500,
                                                      !.signalled = FALSE,
                                                      !.removed = FALSE]
                           /\ UNCHANGED <<procs, active_sessions>>
                      ELSE /\ procs' =
                                 [Terminated(pid) EXCEPT
                                     ![pid].ownerKilled = @ \/ (r = owner)]
                           /\ active_sessions' = KillDeletes(sid)
                           /\ lastKill' = [met EXCEPT !.status = 200,
                                                      !.signalled = TRUE,
                                                      !.removed = TRUE]
              ELSE /\ lastKill' = [met EXCEPT !.status = 404, !.signalled = FALSE,
                                              !.removed = FALSE]
                   /\ UNCHANGED <<procs, active_sessions>>
           /\ lastList' = NoList
           /\ UNCHANGED <<inbound, listing, dep, chk, fs, fileOp, nFileOps, run, conns, crontab,
                          wrappers, reqs>>

\* list_terminal_sessions, lines 215-221.
ListedFor(r) ==
    IF Role(r) = "admin"
    THEN DOMAIN active_sessions
    ELSE {sid \in DOMAIN active_sessions : StartsWith(sid, r \o <<"_">>)}

List ==
    \E r \in Users :
        /\ lastList' = [requester |-> r, sessions |-> ListedFor(r), asked |-> TRUE]
        /\ lastKill' = NoKill
        /\ UNCHANGED <<inbound, listing, dep, chk, fs, fileOp, nFileOps, run, active_sessions, conns,
                       procs, crontab, wrappers, reqs>>

---------------------------------------------------------------------------
(* The schedule: routers/python_deployer.py schedule_script, unschedule_script *)

MaxReqs == 2

\* Schedule names, as strings of tokens. The parameter is not validated: a
\* name can hold a "#" and a line break.
Names == {<<"b">>, <<"a", "#", "b">>, <<"a", "\n", "#", "b">>}

\* Cron expressions, as their whitespace-separated fields.
CronExprs ==
    {<<"*", "*", "*", "*", "*">>, <<"70", "*", "*", "*", "*">>,
     <<"*", "*", "*", "*">>}

EnvSets == {"A=1", "A=2"}

\* f"# {name} - managed by control-panel".
Marker(name) == <<"#">> \o name \o <<"-", "managed by control-panel">>

\* schedule_script, lines 381-382: the wrapper beside the script, named
\* after the script's base name.
WrapperPath(u) ==
    IF u = Alice THEN "/home/alice/s_wrapper.sh" ELSE "/home/alice_b/s_wrapper.sh"

\* schedule_script, line 417.
CronEntry(cron_expression, wrapper_path, name) ==
    cron_expression \o <<wrapper_path>> \o Marker(name) \o <<"\n">>

\* str.splitlines(): the runs between line breaks; no empty last line.
RECURSIVE SplitFrom(_, _)
SplitFrom(line, rest) ==
    IF rest = <<>> THEN (IF line = <<>> THEN <<>> ELSE <<line>>)
    ELSE IF Head(rest) = "\n"
         THEN <<line>> \o SplitFrom(<<>>, Tail(rest))
         ELSE SplitFrom(Append(line, Head(rest)), Tail(rest))

Splitlines(str) == SplitFrom(<<>>, str)

\* "\n".join(lines).
RECURSIVE JoinLines(_)
JoinLines(lines) ==
    IF lines = <<>> THEN <<>>
    ELSE IF Len(lines) = 1 THEN Head(lines)
    ELSE Head(lines) \o <<"\n">> \o JoinLines(Tail(lines))

\* A byte that is not UTF-8, as a crontab written by another tool can hold.
BadByte == "<ff>"

\* stdout.decode() raises UnicodeDecodeError.
DecodeRaises(bytes) == \E i \in 1..Len(bytes) : bytes[i] = BadByte

\* The crontab of the server's account: exists is FALSE when there is none
\* (crontab -l fails), text is what crontab -l prints.
NoCrontab == [exists |-> FALSE, text |-> <<>>]

\* Crontabs the account can have before the first request: none, one that
\* another tool wrote, one that holds a byte that is not UTF-8.
ForeignLine == <<"@daily", "backup">>

QuotingLine == <<"@daily", "echo", "#", "b", "-", "managed by control-panel", ">>log">>

ForeignCrontab ==
    [exists |-> TRUE, text |-> ForeignLine \o <<"\n">> \o QuotingLine \o <<"\n">>]

BinaryCrontab ==
    [exists |-> TRUE, text |-> ForeignLine \o <<"\n", "#", BadByte, "\n">>]

Crontabs0 == {NoCrontab, ForeignCrontab, BinaryCrontab}

\* [line for line in lines if marker not in line].
RECURSIVE WithoutMarker(_, _)
WithoutMarker(lines, name) ==
    IF lines = <<>> THEN <<>>
    ELSE IF Contains(Head(lines), Marker(name))
         THEN WithoutMarker(Tail(lines), name)
         ELSE <<Head(lines)>> \o WithoutMarker(Tail(lines), name)

\* schedule_script, lines 399-414: current_crontab is empty when crontab -l
\* fails and when anything raises, the decoding included (bare except).
CurrentCrontab(current) ==
    IF current.exists /\ ~DecodeRaises(current.text) THEN current.text ELSE <<>>

\* schedule_script, lines 416-423: the lines with the name's marker dropped,
\* the new entry appended.
ScheduleNewCrontab(current, name, cron_entry) ==
    [exists |-> TRUE,
     text   |-> JoinLines(Append(WithoutMarker(Splitlines(CurrentCrontab(current)),
                                               name),
                                 cron_entry))]

\* unschedule_script, lines 571-593: 404 without a crontab or without a
\* line that has the marker.
UnscheduleFound(current, name) ==
    /\ current.exists
    /\ \E line \in {Splitlines(current.text)[i] :
                        i \in 1..Len(Splitlines(current.text))} :
           Contains(line, Marker(name))

\* unschedule_script, lines 577-595.
UnscheduleNewCrontab(current, name) ==
    [exists |-> TRUE,
     text   |-> JoinLines(WithoutMarker(Splitlines(current.text), name))]

\* The string of a relative path: its segments with "/" between them.
RECURSIVE RelStr(_)
RelStr(p) ==
    IF p.segs = <<>> THEN <<>>
    ELSE IF Len(p.segs) = 1 THEN Head(p.segs)
    ELSE Head(p.segs) \o <<"/">> \o RelStr([p EXCEPT !.segs = Tail(@)])

\* A request: who sent it for which script, what it read from crontab -l,
\* the crontab it is to install, and its answer.
Request(op, user, script, name, entry, pc, read, new, status) ==
    [op |-> op, user |-> user, script |-> script, name |-> name,
     entry |-> entry, pc |-> pc, read |-> read, new |-> new, status |-> status]

\* A request answered before it read the crontab.
Refused(op, status) ==
    Request(op, <<>>, <<>>, <<>>, <<>>, "done", NoCrontab, NoCrontab, status)

\* A schedule request answered 400 for its cron expression; entry holds
\* the expression it was refused for.
RefusedCron(cron_expression) ==
    [Refused("schedule", 400) EXCEPT !.entry = cron_expression]

\* A handler that takes any cron expression.
CronRefusalNone(cron_expression) == 0

\* schedule_script, lines 351-357: cron_expression.split() must have five
\* parts; what the parts are is not looked at. 0 if it passes.
CronRefusal(cron_expression) == IF Len(cron_expression) # 5 THEN 400 ELSE 0

Rids == 1..Len(reqs)

\* schedule_script, lines 336-349: the answer of the checks on the script
\* path, 0 if it passes them.
ScriptRefusal(f, u, p) ==
    LET g        == GetUserDir(f, u)
        user_dir == UserDir(u)
        full     == Join(user_dir, p)
    IN IF ~g.ok THEN 500
       ELSE IF ~IsSafePath(full, user_dir) THEN 403
       ELSE IF ~Exists(g.fs, full) THEN 404
       ELSE 0

\* schedule_script, lines 333-428: the checks, the wrapper, the crontab
\* read by `crontab -l` and the new crontab written to a temporary file.
Schedule ==
    \E u \in Tenants, p \in RunPaths :
        /\ Len(reqs) < MaxReqs
        /\ fs' = GetUserDir(fs, u).fs
        /\ IF ScriptRefusal(fs, u, p) # 0
           THEN /\ reqs' = Append(reqs, Refused("schedule", ScriptRefusal(fs, u, p)))
                /\ UNCHANGED wrappers
           ELSE \E name \in Names, cron \in CronExprs, env \in EnvSets :
                   LET entry == CronEntry(cron, WrapperPath(u), name) IN
                   IF CronRefusal(cron) # 0
                   THEN /\ reqs' = Append(reqs, RefusedCron(cron))
                        /\ UNCHANGED wrappers
                   ELSE /\ wrappers' = Put(wrappers, WrapperPath(u), env)
                        /\ reqs' = Append(reqs,
                              Request("schedule", u, RelStr(p), name, entry, "install",
                                      crontab,
                                      ScheduleNewCrontab(crontab, name, entry), 0))
        /\ UNCHANGED <<inbound, listing, dep, chk, fileOp, nFileOps, run, active_sessions, conns,
                       procs, lastKill, lastList, crontab>>

\* unschedule_script, lines 559-600: stdout.decode() at line 568 comes
\* before the test of the return code, and what it raises is answered 500.
Unschedule ==
    \E name \in Names :
        /\ Len(reqs) < MaxReqs
        /\ reqs' = Append(reqs,
              IF DecodeRaises(crontab.text)
              THEN Request("unschedule", <<>>, <<>>, name, <<>>, "done", crontab, crontab, 500)
              ELSE IF UnscheduleFound(crontab, name)
              THEN Request("unschedule", <<>>, <<>>, name, <<>>, "install", crontab,
                           UnscheduleNewCrontab(crontab, name), 0)
              ELSE Request("unschedule", <<>>, <<>>, name, <<>>, "done", crontab, crontab, 404))
        /\ UNCHANGED <<inbound, listing, dep, chk, fs, fileOp, nFileOps, run, active_sessions, conns,
                       procs, lastKill, lastList, crontab, wrappers>>

\* schedule_script, lines 430-459, and unschedule_script, lines 602-627:
\* `crontab <file>` replaces the crontab with the temporary file.
Install ==
    \E r \in Rids :
        /\ reqs[r].pc = "install"
        /\ crontab' = reqs[r].new
        /\ reqs' = [reqs EXCEPT ![r].pc = "done", ![r].status = 200]
        /\ UNCHANGED <<inbound, listing, dep, chk, fs, fileOp, nFileOps, run, active_sessions, conns,
                       procs, lastKill, lastList, wrappers>>

\* An install that writes the new table before it fails.
FailedInstallWrites(current, new) == new

\* The handlers write new_crontab to a temporary file only (lines 425-428,
\* 597-600); the crontab is touched by `crontab <file>` alone, which leaves
\* it as it was when it fails.
FailedInstallLeaves(current, new) == current

\* schedule_script, lines 440-444, and unschedule_script, lines 611-615:
\* `crontab <file>` exits with an error and the request is answered 500.
InstallFails ==
    \E r \in Rids :
        /\ reqs[r].pc = "install"
        /\ crontab' = FailedInstallLeaves(crontab, reqs[r].new)
        /\ reqs' = [reqs EXCEPT ![r].pc = "done", ![r].status = 500]
        /\ UNCHANGED <<inbound, listing, dep, chk, fs, fileOp, nFileOps, run, active_sessions, conns,
                       procs, lastKill, lastList, wrappers>>

\* str.split(): the whitespace-separated fields of a line.
RECURSIVE Fields(_)
Fields(line) ==
    IF line = <<>> THEN <<>>
    ELSE (IF Head(line) = "managed by control-panel"
          THEN <<"managed", "by", "control-panel">>
          ELSE <<Head(line)>>) \o Fields(Tail(line))

\* Where the "- managed by control-panel" of a line can end a match that
\* starts at the "#" at i: the name between them is not empty text.
MarkerEnds(line, i) ==
    {j \in (i + 2)..(Len(line) - 1) :
        line[j] = "-" /\ line[j + 1] = "managed by control-panel"}

\* re.search(r'# (.*) - managed by control-panel', line): the positions of
\* a "#" at which a match can start.
MarkerStarts(line) ==
    {i \in 1..Len(line) : line[i] = "#" /\ MarkerEnds(line, i) # {}}

Least(S) == CHOOSE x \in S : \A y \in S : x <= y

Greatest(S) == CHOOSE x \in S : \A y \in S : y <= x

\* match.group(1): the leftmost match, its group as long as it can be.
MatchedName(line) ==
    LET i == Least(MarkerStarts(line))
        j == Greatest(MarkerEnds(line, i))
    IN SubSeq(line, i + 1, j - 1)

\* re.search(r'python (.*\.py)', line): from the first "python" to the last
\* token that ends in ".py"; "Unknown" without a match.
PyNames == {"s.py", "m.py", "t.py"}

ScriptPathOf(line) ==
    LET starts == {i \in 1..Len(line) : line[i] = "python" /\
                      \E j \in (i + 1)..Len(line) : line[j] \in PyNames}
    IN IF starts = {} THEN <<"Unknown">>
       ELSE LET i == Least(starts)
                j == Greatest({j \in (i + 1)..Len(line) : line[j] \in PyNames})
            IN SubSeq(line, i + 1, j)

\* " ".join(line.split()[:5]), as its fields.
FirstFive(line) ==
    SubSeq(Fields(line), 1, IF Len(Fields(line)) < 5 THEN Len(Fields(line)) ELSE 5)

\* list_scheduled_scripts, lines 505-527: a record for every line that the
\* marker pattern matches.
RECURSIVE ScheduledScripts(_)
ScheduledScripts(lines) ==
    IF lines = <<>> THEN <<>>
    ELSE (IF MarkerStarts(Head(lines)) # {}
          THEN <<[name            |-> MatchedName(Head(lines)),
                  cron_expression |-> FirstFive(Head(lines)),
                  script_path     |-> ScriptPathOf(Head(lines))]>>
          ELSE <<>>) \o ScheduledScripts(Tail(lines))

NoListing ==
    [asked |-> FALSE, requester |-> <<>>, status |-> 0, read |-> NoCrontab,
     scheduled_scripts |-> <<>>]

\* list_scheduled_scripts, lines 489-542: the crontab of the server's
\* account is read and parsed, whoever asks; stdout.decode() raising is
\* answered 500.
ListScheduled ==
    \E r \in Tenants :
        /\ listing' =
              [asked |-> TRUE, requester |-> r, read |-> crontab,
               status |-> IF DecodeRaises(crontab.text) THEN 500 ELSE 200,
               scheduled_scripts |->
                   IF DecodeRaises(crontab.text) \/ ~crontab.exists THEN <<>>
                   ELSE ScheduledScripts(Splitlines(crontab.text))]
        /\ UNCHANGED <<inbound, dep, chk, fs, fileOp, nFileOps, run, active_sessions, conns,
                       procs, lastKill, lastList, crontab, wrappers, reqs>>

---------------------------------------------------------------------------
(* The activity log: services/logging.py *)

\* What init_db() and log_entry.save() do when log_activity runs: the entry
\* is saved, or one of the two raises (the database cannot be reached, the
\* document is refused).
LogOutcomes == {"saved", "init_db raised", "save raised"}

\* A log_activity without the try statement: what init_db() or save()
\* raises reaches the caller.
LogActivityPropagates(outcome) ==
    IF outcome = "saved" THEN "returned" ELSE "raised"

\* log_activity, lines 17-28: `except Exception` around both calls logs the
\* error, and the coroutine returns None.
LogActivity(outcome) == "returned"

---------------------------------------------------------------------------
(* The isolated environments: routers/python_deployer.py
   create_virtual_environment, install_requirements *)

MaxEnvOps == 2

SegVenv  == <<".venv">>
SegBin   == <<"bin">>
SegPip   == <<"pip">>
SegReq   == <<"requirements.txt">>
SegOther == <<"t.py">>

\* Lines 104-105, 167-168, 258-259, 369-370: the environment of a script is
\* the directory .venv beside it.
VenvPath(full_script_path) == Append(Dirname(full_script_path), SegVenv)

\* Line 185: the pip of an environment.
PipPath(venv_path) == venv_path \o <<SegBin, SegPip>>

\* What `python -m venv` leaves when it ends well: the directory, bin/ and
\* bin/pip in it.
VenvMade(f, venv) ==
    (venv :> DirNode) @@ (Append(venv, SegBin) :> DirNode)
    @@ (PipPath(venv) :> FileNode) @@ f

\* What it leaves when it fails after making the directories (ensurepip is
\* not available): an environment without pip.
VenvPartial(f, venv) ==
    (venv :> DirNode) @@ (Append(venv, SegBin) :> DirNode) @@ f

VenvOutcomes == {"created", "failed"}

PipOutcomes == {"installed", "failed"}

\* A handler's answer: the HTTP status, the kind of failure it stands for,
\* the filesystem it leaves, the script and the environment it worked on,
\* whether it launched a child process, and the files it wrote.
DepAnswer(status, kind, f, script, venv, launched, wrote) ==
    [status |-> status, kind |-> kind, fs |-> f, script |-> script,
     venv |-> venv, launched |-> launched, wrote |-> wrote]

\* A create_virtual_environment without the test of line 108: the
\* environment is made whether or not there is one.
CreateOverExisting(f0, u, script_path, outcome, log) ==
    LET f    == GetUserDir(f0, u).fs
        full == Join(UserDir(u), script_path)
        venv == Normpath(VenvPath(full))
    IN DepAnswer(200, "none", VenvMade(f, venv), Normpath(full), venv, TRUE, {venv})

\* create_virtual_environment, lines 88-140. What log_activity raises is
\* not a CalledProcessError and leaves the handler.
CreateVirtualEnvironment(f0, u, script_path, outcome, log) ==
    LET g         == GetUserDir(f0, u)
        f         == g.fs
        user_dir  == UserDir(u)
        full      == Join(user_dir, script_path)
        venv_path == VenvPath(full)
        w         == Walk(f, venv_path, TRUE)
    IN IF ~g.ok THEN DepAnswer(500, "Internal", f0, <<>>, <<>>, FALSE, {})
       ELSE IF ~IsSafePath(full, user_dir)
       THEN DepAnswer(403, "SandboxViolation", f, <<>>, <<>>, FALSE, {})
       ELSE IF ~Exists(f, full)
       THEN DepAnswer(404, "NotFound", f, <<>>, <<>>, FALSE, {})
       ELSE IF Exists(f, venv_path)
       THEN DepAnswer(400, "AlreadyExists", f, Normpath(full), w.path, FALSE, {})
       ELSE IF ~w.ok
       THEN DepAnswer(500, "LaunchFailed", f, Normpath(full), w.path, TRUE, {})
       ELSE IF outcome = "failed"
       THEN DepAnswer(500, "LaunchFailed", VenvPartial(f, w.path), Normpath(full),
                      w.path, TRUE, {w.path})
       ELSE IF LogActivity(log) = "raised"
       THEN DepAnswer(500, "Internal", VenvMade(f, w.path), Normpath(full),
                      w.path, TRUE, {w.path})
       ELSE DepAnswer(200, "none", VenvMade(f, w.path), Normpath(full),
                      w.path, TRUE, {w.path})

\* An install_requirements that writes requirements.txt before the check.
InstallRequirementsWritesFirst(f0, u, script_path, outcome, log) ==
    LET f        == GetUserDir(f0, u).fs
        full     == Join(UserDir(u), script_path)
        req_file == Normpath(Append(Dirname(full), SegReq))
    IN IF IsSafePath(full, UserDir(u))
       THEN DepAnswer(200, "none", f, Normpath(full), <<>>, TRUE, {req_file})
       ELSE DepAnswer(403, "SandboxViolation", (req_file :> FileNode) @@ f,
                      <<>>, <<>>, FALSE, {req_file})

\* install_requirements, lines 151-227: requirements.txt is written beside
\* the script before pip is looked for; `except Exception` at line 223
\* answers 500 for the exit code of pip and for whatever the try body raises.
InstallRequirements(f0, u, script_path, outcome, log) ==
    LET g          == GetUserDir(f0, u)
        f          == g.fs
        user_dir   == UserDir(u)
        full       == Join(user_dir, script_path)
        script_dir == Dirname(full)
        venv_path  == VenvPath(full)
        w          == Walk(f, venv_path, TRUE)
        req_file   == Walk(f, Append(script_dir, SegReq), TRUE)
        written    == (req_file.path :> FileNode) @@ f
    IN IF ~g.ok THEN DepAnswer(500, "Internal", f0, <<>>, <<>>, FALSE, {})
       ELSE IF ~IsSafePath(full, user_dir)
       THEN DepAnswer(403, "SandboxViolation", f, <<>>, <<>>, FALSE, {})
       ELSE IF ~Exists(f, full)
       THEN DepAnswer(404, "NotFound", f, <<>>, <<>>, FALSE, {})
       ELSE IF ~Exists(f, venv_path)
       THEN DepAnswer(400, "EnvironmentMissing", f, Normpath(full), w.path, FALSE, {})
       ELSE IF ~Exists(written, PipPath(venv_path))
       THEN DepAnswer(500, "LaunchFailed", written, Normpath(full), w.path, FALSE,
                      {req_file.path})
       ELSE IF outcome = "failed"
       THEN DepAnswer(500, "LaunchFailed", written, Normpath(full), w.path, TRUE,
                      {req_file.path})
       ELSE IF LogActivity(log) = "raised"
       THEN DepAnswer(500, "LaunchFailed", written, Normpath(full), w.path, TRUE,
                      {req_file.path})
       ELSE DepAnswer(200, "none", written, Normpath(full), w.path, TRUE,
                      {req_file.path})

EnvPaths ==
    {RelPath(<<SegScript>>), RelPath(<<SegOther>>), RelPath(<<SegMissing>>),
     RelPath(<<DotDot, DotDot, SegEtc, SegScript>>)}

\* No request answered yet. outcome: how the child process ended, if one
\* was launched; log: what log_activity met, if the handler came to call it;
\* seen: the failure kinds answered so far, each with its status; uses: the
\* scripts worked on so far, each with its environment.
NoDep ==
    [n |-> 0, op |-> "none", user |-> Alice, path |-> RelPath(<<>>),
     outcome |-> "none", log |-> "none", status |-> 0, kind |-> "none",
     script |-> <<>>, venv |-> <<>>, launched |-> FALSE, wrote |-> {},
     seen |-> {}, uses |-> {}]

EnvServed(op, u, p, outcome, log, ans) ==
    /\ dep.n < MaxEnvOps
    /\ fs' = ans.fs
    /\ dep' = [n |-> dep.n + 1, op |-> op, user |-> u, path |-> p,
               outcome |-> IF ans.launched THEN outcome ELSE "none",
               log |-> IF ans.status = 200 THEN log ELSE "none",
               status |-> ans.status,
               kind |-> ans.kind, script |-> ans.script, venv |-> ans.venv,
               launched |-> ans.launched, wrote |-> ans.wrote,
               seen |-> dep.seen \cup
                        (IF ans.kind = "none" THEN {}
                         ELSE {[kind |-> ans.kind, status |-> ans.status]}),
               uses |-> dep.uses \cup
                        (IF ans.script = <<>> THEN {}
                         ELSE {[script |-> ans.script, venv |-> ans.venv]})]
    /\ UNCHANGED <<inbound, listing, chk, fileOp, nFileOps, run, active_sessions, conns,
                   procs, lastKill, lastList, crontab, wrappers, reqs>>

CreateVenv ==
    \E u \in Tenants, p \in EnvPaths, outcome \in VenvOutcomes, log \in LogOutcomes :
        EnvServed("create_virtualenv", u, p, outcome, log,
                  CreateVirtualEnvironment(fs, u, p, outcome, log))

InstallReqs ==
    \E u \in Tenants, p \in EnvPaths, outcome \in PipOutcomes, log \in LogOutcomes :
        EnvServed("install_requirements", u, p, outcome, log,
                  InstallRequirements(fs, u, p, outcome, log))

\* files.py delete_item on the environment: the removal that has to come
\* before an environment is made again.
RemoveVenv ==
    \E u \in Tenants :
        /\ fs' = DeleteItem(fs, u, RelPath(<<SegVenv>>)).fs
        /\ fs' # fs
        /\ UNCHANGED <<inbound, listing, dep, chk, fileOp, nFileOps, run, active_sessions, conns,
                       procs, lastKill, lastList, crontab, wrappers, reqs>>

---------------------------------------------------------------------------
(* The sandbox check on its own: files.py, the prologue of every handler *)

MaxPathLen == 2

PathSegs == {DotDot, Dot, SegD, AliceB, SegEtc}

CallerPaths ==
    {[abs |-> a, segs |-> s] : a \in BOOLEAN, s \in SeqsUpTo(PathSegs, MaxPathLen)}

\* files.py list_files, lines 46-53: 403 when the check rejects, else the
\* handler goes on with the joined path (status 0: not rejected).
Resolve(u, p) ==
    LET user_dir == UserDir(u)
        target   == Join(user_dir, p)
    IN IF ~IsSafePath(target, user_dir)
       THEN [status |-> 403, target |-> target]
       ELSE [status |-> 0, target |-> target]

\* is_safe_path, line 32: the absolute path that the check accepted.
AbsResult(u, p) == Abspath(Resolve(u, p).target)

SandboxCall ==
    /\ chk.pc = "call"
    /\ chk' = [chk EXCEPT !.pc = "done",
                          !.status = Resolve(chk.tenant, chk.path).status,
                          !.result = AbsResult(chk.tenant, chk.path)]
    /\ UNCHANGED <<inbound, listing, dep, fs, fileOp, nFileOps, run, active_sessions, conns, procs,
                   lastKill, lastList, crontab, wrappers, reqs>>

\* A handler called with the path that an earlier call accepted: the
\* absolute path is joined with the tenant root and checked again.
SandboxRecall ==
    /\ chk.pc = "done"
    /\ chk.status = 0
    /\ chk' = [chk EXCEPT
                 !.pc = "again",
                 !.status2 = Resolve(chk.tenant, AbsPath(chk.result)).status,
                 !.result2 = AbsResult(chk.tenant, AbsPath(chk.result))]
    /\ UNCHANGED <<inbound, listing, dep, fs, fileOp, nFileOps, run, active_sessions, conns, procs,
                   lastKill, lastList, crontab, wrappers, reqs>>

---------------------------------------------------------------------------
(* Specifications *)

NoChk ==
    [tenant |-> Alice, path |-> RelPath(<<>>), pc |-> "off", status |-> 0,
     result |-> <<>>, status2 |-> 0, result2 |-> <<>>]

InitSandbox ==
    /\ chk \in {[tenant |-> t, path |-> p, pc |-> "call", status |-> 0,
                  result |-> <<>>, status2 |-> 0, result2 |-> <<>>] :
                   t \in Tenants, p \in CallerPaths}
    /\ fs = FsInit
    /\ fileOp = NoFileOp
    /\ nFileOps = 0
    /\ run = RunIdle
    /\ active_sessions = <<>>
    /\ conns = {}
    /\ procs = <<>>
    /\ lastKill = NoKill
    /\ lastList = NoList
    /\ crontab = NoCrontab
    /\ wrappers = <<>>
    /\ reqs = <<>>
    /\ dep = NoDep
    /\ listing = NoListing
    /\ inbound = NoInbound

NextSandbox == SandboxCall \/ SandboxRecall

SpecSandbox == InitSandbox /\ [][NextSandbox]_vars

InitFiles ==
    /\ chk = NoChk
    /\ fs = FsInit
    /\ fileOp = NoFileOp
    /\ nFileOps = 0
    /\ run = RunIdle
    /\ active_sessions = <<>>
    /\ conns = {}
    /\ procs = <<>>
    /\ lastKill = NoKill
    /\ lastList = NoList
    /\ crontab = NoCrontab
    /\ wrappers = <<>>
    /\ reqs = <<>>
    /\ dep = NoDep
    /\ listing = NoListing
    /\ inbound = NoInbound

NextFiles == Mkdir \/ Upload \/ Delete \/ Rename \/ ShellLink

SpecFiles == InitFiles /\ [][NextFiles]_vars

\* Each tenant has its root with an archive in it.
FsZip ==
    [q \in {<<SegHome>>, <<SegEtc>>} \cup {UserDir(u) : u \in Tenants}
            \cup {Append(UserDir(u), SegZip) : u \in Tenants} |->
        IF Len(q) = 3 THEN FileNode ELSE DirNode]

InitExtract ==
    /\ chk = NoChk
    /\ fs = FsZip
    /\ fileOp = NoFileOp
    /\ nFileOps = 0
    /\ run = RunIdle
    /\ active_sessions = <<>>
    /\ conns = {}
    /\ procs = <<>>
    /\ lastKill = NoKill
    /\ lastList = NoList
    /\ crontab = NoCrontab
    /\ wrappers = <<>>
    /\ reqs = <<>>
    /\ dep = NoDep
    /\ listing = NoListing
    /\ inbound = NoInbound

NextExtract == Extract

SpecExtract == InitExtract /\ [][NextExtract]_vars

\* The tenants' roots with one script each, as left by upload_script.
FsScripts ==
    (<<SegHome>> :> DirNode) @@ (<<SegEtc>> :> DirNode)
    @@ (UserDir(Alice) :> DirNode) @@ (Append(UserDir(Alice), SegScript) :> FileNode)
    @@ (UserDir(AliceB) :> DirNode) @@ (Append(UserDir(AliceB), SegScript) :> FileNode)

InitRun ==
    /\ chk = NoChk
    /\ fs = FsScripts
    /\ fileOp = NoFileOp
    /\ nFileOps = 0
    /\ run = RunIdle
    /\ active_sessions = <<>>
    /\ conns = {}
    /\ procs = <<>>
    /\ lastKill = NoKill
    /\ lastList = NoList
    /\ crontab = NoCrontab
    /\ wrappers = <<>>
    /\ reqs = <<>>
    /\ dep = NoDep
    /\ listing = NoListing
    /\ inbound = NoInbound

NextRun == RunRequest \/ RunLaunchFails \/ RunSpawn \/ RunChildExits \/ RunTimesOut

SpecRun == InitRun /\ [][NextRun]_vars

\* The handler is a task of the event loop: its next step is taken, the
\* child's end is noticed, and the timer of wait_for fires.
SpecRunLive ==
    /\ SpecRun
    /\ WF_vars(RunLaunchFails \/ RunSpawn)
    /\ WF_vars(RunChildExits)
    /\ WF_vars(RunTimesOut)

InitTerm ==
    /\ chk = NoChk
    /\ fs = FsInit
    /\ fileOp = NoFileOp
    /\ nFileOps = 0
    /\ run = RunIdle
    /\ active_sessions = <<>>
    /\ conns = {}
    /\ procs = <<>>
    /\ lastKill = NoKill
    /\ lastList = NoList
    /\ crontab = NoCrontab
    /\ wrappers = <<>>
    /\ reqs = <<>>
    /\ dep = NoDep
    /\ listing = NoListing
    /\ inbound = NoInbound

NextTerm == Open \/ ProcExits \/ FlowEnds \/ Cleanup \/ Kill \/ List

SpecTerm == InitTerm /\ [][NextTerm]_vars

\* The bridged flows of the sessions: frames in and chunks out, between
\* opening and cleanup.
NextBridge ==
    Open \/ WriteToProcess \/ ReadFromProcess \/ ProcExits \/ FlowEnds \/ Cleanup

SpecBridge == InitTerm /\ [][NextBridge]_vars

\* The write task of one session on its own.
NextInbound == ReceiveText

SpecInbound == InitTerm /\ [][NextInbound]_vars

\* The finally clause of terminal_websocket runs once a flow has ended: the
\* handler is a task of the event loop and nothing it awaits there blocks.
SpecTermLive == SpecTerm /\ WF_vars(Cleanup)

InitCron ==
    /\ chk = NoChk
    /\ fs = FsScripts
    /\ fileOp = NoFileOp
    /\ nFileOps = 0
    /\ run = RunIdle
    /\ active_sessions = <<>>
    /\ conns = {}
    /\ procs = <<>>
    /\ lastKill = NoKill
    /\ lastList = NoList
    /\ crontab \in Crontabs0
    /\ wrappers = <<>>
    /\ reqs = <<>>
    /\ dep = NoDep
    /\ listing = NoListing
    /\ inbound = NoInbound

NextCron == Schedule \/ Unschedule \/ Install \/ InstallFails

SpecCron == InitCron /\ [][NextCron]_vars

\* The schedule with its listing.
NextListed == Schedule \/ Unschedule \/ Install \/ InstallFails \/ ListScheduled

SpecListed == InitCron /\ [][NextListed]_vars

\* A tenant root with two scripts side by side, as left by upload_script.
FsEnv == (Append(UserDir(Alice), SegOther) :> FileNode) @@ FsScripts

\* The same with the environment of alice_b's script made already.
FsEnvMade == VenvMade(FsEnv, VenvPath(Append(UserDir(AliceB), SegScript)))

InitEnv ==
    /\ chk = NoChk
    /\ fs \in {FsEnv, FsEnvMade}
    /\ fileOp = NoFileOp
    /\ nFileOps = 0
    /\ run = RunIdle
    /\ active_sessions = <<>>
    /\ conns = {}
    /\ procs = <<>>
    /\ lastKill = NoKill
    /\ lastList = NoList
    /\ crontab = NoCrontab
    /\ wrappers = <<>>
    /\ reqs = <<>>
    /\ dep = NoDep
    /\ listing = NoListing
    /\ inbound = NoInbound

NextEnv == CreateVenv \/ InstallReqs \/ RemoveVenv

SpecEnv == InitEnv /\ [][NextEnv]_vars

\* The four handlers of the deployer that take a script path. A behaviour
\* follows the requests to one of them: run_script, schedule_script, or the
\* two handlers of the environments.
NextDeploy ==
    \/ /\ reqs = <<>>
       /\ dep.n = 0
       /\ NextRun
    \/ /\ run = RunIdle
       /\ dep.n = 0
       /\ (Schedule \/ Install \/ InstallFails)
    \/ /\ run = RunIdle
       /\ reqs = <<>>
       /\ NextEnv

SpecDeploy == InitEnv /\ [][NextDeploy]_vars

---------------------------------------------------------------------------
(* Claims on the sandbox and the file manager *)

\* The absolute path a sandbox call checked, and the caller's tenant root.
ChkRoot == UserDir(chk.tenant)

ChkPath == Normpath(Join(ChkRoot, chk.path))

HasDotDot(p) == \E i \in 1..Len(p.segs) : p.segs[i] = DotDot

\* C1: a relative path with ".." segments whose normalised join with the
\* tenant root lies outside the root is rejected with 403.
C1_DotDotEscapeRejected ==
    (/\ chk.pc = "done"
     /\ ~chk.path.abs
     /\ HasDotDot(chk.path)
     /\ ~Inside(ChkRoot, ChkPath))
        => chk.status = 403

\* C2: the check accepts a path only if it is the tenant root or below it
\* by path segments; a sibling whose name extends the root's is rejected.
C2_AcceptedOnlyInsideBySegments ==
    (chk.pc = "done" /\ chk.status # 403) => Inside(ChkRoot, ChkPath)

\* C3: a path through a symbolic link inside the root that points outside
\* it is rejected with 403.
C3_LinkEscapeRejected ==
    (fileOp.op # "none" /\ fileOp.linkOut) => fileOp.status = 403

\* C4: every path a file-manager operation of tenant T creates, writes,
\* renames to or deletes is T's root or below it.
C4_EffectsInsideRoot ==
    \A q \in fileOp.effects : Inside(UserDir(fileOp.user), q)

\* C21: for a relative path whose join with the tenant root lies inside the
\* root, checking the accepted absolute path again accepts it and gives the
\* same absolute path.
C21_ResolveIdempotent ==
    (/\ chk.pc = "again"
     /\ ~chk.path.abs
     /\ Inside(ChkRoot, ChkPath))
        => /\ chk.status2 = 0
           /\ chk.result2 = chk.result

\* A path with a ".." segment that stays inside the root was checked twice.
C21_Witness ==
    /\ chk.pc = "again"
    /\ ~chk.path.abs
    /\ HasDotDot(chk.path)
    /\ Inside(ChkRoot, ChkPath)
    /\ chk.result2 = chk.result

---------------------------------------------------------------------------
(* Claims on the script runner *)

\* C5: a run whose script is still running when the timeout elapses is
\* answered with the request-timeout error (408), which differs from the
\* answer to a launch failure.
C5_TimeoutAnswered408 ==
    (run.pc = "done" /\ run.outcome = "timed_out") => run.resp.status = 408

\* C6: a run whose script exits before the timeout is answered with a
\* normal result carrying the script's exit code and the bytes it wrote to
\* stdout and stderr, whatever the exit code.
C6_ExitAnsweredWithResult ==
    (run.pc = "done" /\ run.outcome = "exited")
        => /\ run.resp.status = 200
           /\ run.resp.returncode = run.child.code
           /\ Utf8(run.resp.stdout) = run.child.out
           /\ Utf8(run.resp.stderr) = run.child.err

\* C28: a run whose script is still running when the timeout elapses has
\* had its child killed when the handler returns, and its answer bears none
\* of what the child wrote to stdout and stderr.
C28_TimeoutKillsAndDiscards ==
    (run.pc = "done" /\ run.outcome = "timed_out")
        => /\ run.killed
           /\ run.resp.stdout = <<>>
           /\ run.resp.stderr = <<>>

\* A run timed out after its child had written to stdout and stderr.
C28_Witness ==
    /\ run.pc = "done"
    /\ run.outcome = "timed_out"
    /\ run.child.out # <<>>
    /\ run.child.err # <<>>

\* C29: a run_script request whose handler has passed the checks is
\* eventually answered, whether or not its script ever ends.
C29_RunReturns == (run.pc \in {"spawn", "wait"}) ~> (run.pc = "done")

\* A run of a script that never ends was answered.
C29_Witness ==
    /\ run.pc = "done"
    /\ run.outcome = "timed_out"
    /\ ~run.child.exits
    /\ run.resp.status # 0

---------------------------------------------------------------------------
(* Claims on the terminal sessions *)

\* C7: a kill succeeds only for the tenant that opened the session or an
\* admin; any other requester gets 403, and the process is not signalled
\* and stays registered.
C7_KillOnlyByOwnerOrAdmin ==
    (lastKill.found /\ lastKill.requester # lastKill.owner
                    /\ Role(lastKill.requester) # "admin")
        => /\ lastKill.status = 403
           /\ ~lastKill.signalled
           /\ ~lastKill.removed

\* The tenant that opened the session registered under sid.
OwnerOf(sid) == procs[active_sessions[sid]].user

\* C8: an admin is listed every registry entry, any other requester exactly
\* the sessions that requester opened.
C8_ListOnlyOwnSessions ==
    lastList.asked =>
        lastList.sessions =
            IF Role(lastList.requester) = "admin"
            THEN DOMAIN active_sessions
            ELSE {sid \in DOMAIN active_sessions : OwnerOf(sid) = lastList.requester}

\* C9: once its owner has killed a session, another kill of the same id by
\* the owner is answered 404, and the session's process has had terminate()
\* called on it exactly once, also after the connection handler's cleanup.
C9_SecondKillNotFound ==
    /\ lastKill.again => lastKill.status = 404
    /\ \A p \in Pids : procs[p].ownerKilled => procs[p].termCalls = 1

\* A second kill by the owner was answered, and the handler of the killed
\* session has run its cleanup.
C9_Witness ==
    /\ lastKill.again
    /\ lastKill.status = 404
    /\ \E p \in Pids :
          /\ procs[p].ownerKilled
          /\ procs[p].sid = lastKill.sid
          /\ \A c \in conns : c.proc # p

---------------------------------------------------------------------------
(* Claims on the schedule *)

\* The orders in which n requests can be served one after the other.
Orders(n) == {o \in [1..n -> 1..n] : \A i, j \in 1..n : o[i] = o[j] => i = j}

\* Serving the requests order[i..] one at a time, each from the crontab its
\* predecessor left: ok says that none of them was answered 404.
RECURSIVE SerialFrom(_, _, _)
SerialFrom(current, order, i) ==
    IF i > Len(reqs) THEN [ok |-> TRUE, crontab |-> current]
    ELSE LET q == reqs[order[i]] IN
         IF q.op = "schedule"
         THEN SerialFrom(ScheduleNewCrontab(current, q.name, q.entry), order, i + 1)
         ELSE IF ~DecodeRaises(current.text) /\ UnscheduleFound(current, q.name)
              THEN SerialFrom(UnscheduleNewCrontab(current, q.name), order, i + 1)
              ELSE [ok |-> FALSE, crontab |-> current]

AllSucceeded == \A r \in Rids : reqs[r].pc = "done" /\ reqs[r].status = 200

\* C10: when concurrent schedule and unschedule requests have all succeeded,
\* the crontab is what serving them in some serial order leaves, starting
\* from the crontab that the first of them read.
C10_Serializable ==
    (reqs # <<>> /\ AllSucceeded) =>
        \E o \in Orders(Len(reqs)) :
            LET s == SerialFrom(reqs[1].read, o, 1) IN s.ok /\ s.crontab = crontab

\* The lines of a crontab, and those that carry the marker of a name.
LinesOf(current) == Splitlines(current.text)

Carrying(current, name) ==
    {k \in 1..Len(LinesOf(current)) : Contains(LinesOf(current)[k], Marker(name))}

\* The cron expression of a schedule request, and the first five fields of
\* a line.
CronOf(q) == SubSeq(q.entry, 1, 5)

FieldsOf(line) == SubSeq(line, 1, IF Len(line) < 5 THEN Len(line) ELSE 5)

\* Request j was served right after request i: it read the crontab that i
\* installed, and the crontab is the one j installed.
ServedInTurn(i, j) ==
    /\ i # j
    /\ reqs[i].status = 200
    /\ reqs[j].status = 200
    /\ reqs[j].read = reqs[i].new
    /\ crontab = reqs[j].new

\* C11: after two schedule requests with the same name and different cron
\* expressions, served one after the other, exactly one line of the crontab
\* carries the name's marker, and it bears the second expression.
C11_SecondUpsertReplaces ==
    \A i, j \in Rids :
        (/\ reqs[i].op = "schedule"
         /\ reqs[j].op = "schedule"
         /\ reqs[i].name = reqs[j].name
         /\ ServedInTurn(i, j)
         /\ CronOf(reqs[i]) # CronOf(reqs[j]))
            => /\ Cardinality(Carrying(crontab, reqs[j].name)) = 1
               /\ \A k \in Carrying(crontab, reqs[j].name) :
                     FieldsOf(LinesOf(crontab)[k]) = CronOf(reqs[j])

\* The request that a step has just started, if it started one.
Started == Len(reqs') = Len(reqs) + 1

NewReq == reqs'[Len(reqs')]

\* C12: an unschedule request that finds no line with the marker of its name
\* is answered 404 without an install: the crontab after it is the crontab
\* before it.
C12_RemoveAbsentNotFound ==
    [][(/\ Started
        /\ NewReq.op = "unschedule"
        /\ Carrying(crontab, NewReq.name) = {})
           => /\ NewReq.status = 404
              /\ NewReq.pc = "done"
              /\ crontab' = crontab]_vars

\* A managed entry of a name: a line that ends with the name's marker.
EndsWith(str, suffix) ==
    /\ Len(suffix) <= Len(str)
    /\ SubSeq(str, Len(str) - Len(suffix) + 1, Len(str)) = suffix

ManagedLines(current, name) ==
    {k \in 1..Len(LinesOf(current)) : EndsWith(LinesOf(current)[k], Marker(name))}

\* C13: at most one line of the crontab is an entry of any one name,
\* whatever schedule and unschedule requests were served and however they
\* interleaved.
C13_OneLinePerName ==
    \A name \in Names : Cardinality(ManagedLines(crontab, name)) <= 1

\* The lines that are no managed entry: they do not end with the marker of
\* a name.
RECURSIVE Unmanaged(_)
Unmanaged(lines) ==
    IF lines = <<>> THEN <<>>
    ELSE IF \E name \in Names : EndsWith(Head(lines), Marker(name))
         THEN Unmanaged(Tail(lines))
         ELSE <<Head(lines)>> \o Unmanaged(Tail(lines))

\* Whether the elements of sub occur in lines, in the same order.
RECURSIVE IsSubsequence(_, _)
IsSubsequence(sub, lines) ==
    IF sub = <<>> THEN TRUE
    ELSE IF lines = <<>> THEN FALSE
    ELSE IF Head(sub) = Head(lines)
         THEN IsSubsequence(Tail(sub), Tail(lines))
         ELSE IsSubsequence(sub, Tail(lines))

\* C14: an install of a schedule or unschedule request keeps every line that
\* is no managed entry, unchanged and in the same order.
C14_ForeignLinesKept ==
    [][crontab' # crontab
           => IsSubsequence(Unmanaged(LinesOf(crontab)), LinesOf(crontab'))]_vars

\* The request whose install a step has just ended, if it ended one.
Installing(r) == reqs[r].pc = "install" /\ reqs'[r].pc = "done"

\* C15: the crontab only ever changes to the complete new table of a request
\* whose install succeeds; a request whose install fails is answered 500
\* and leaves the crontab as it was.
C15_OldOrNewTable ==
    [][/\ crontab' # crontab
            => \E r \in Rids : /\ Installing(r)
                               /\ reqs'[r].status = 200
                               /\ crontab' = reqs[r].new
       /\ \A r \in Rids :
             Installing(r)
                => \/ reqs'[r].status = 200 /\ crontab' = reqs[r].new
                   \/ reqs'[r].status = 500 /\ crontab' = crontab]_vars

\* A request whose install failed: it was to change the crontab, it is
\* answered 500 and the crontab is the one it read.
C15_Witness ==
    \E r \in Rids :
        /\ reqs[r].pc = "done"
        /\ reqs[r].status = 500
        /\ reqs[r].new # reqs[r].read
        /\ crontab = reqs[r].read
        /\ crontab.exists

---------------------------------------------------------------------------
(* Claims on the end of a session *)

\* A flow of the session of process p has ended and its handler is at the
\* finally clause.
FlowEnded(p) == \E c \in conns : c.proc = p /\ c.pc = "cleanup"

\* The registry holds the session of process p.
Registered(p) ==
    /\ p \in Pids
    /\ procs[p].sid \in DOMAIN active_sessions
    /\ active_sessions[procs[p].sid] = p

\* C16: once a flow of a session has ended, the session is eventually out of
\* the registry, also when the flow ended because the process had exited.
C16_EndedSessionRemoved ==
    \A p \in 1..MaxSessions : FlowEnded(p) ~> ~Registered(p)

\* C17: the sessions that are open at the same time have an entry each,
\* under ids that differ, and no two entries of the registry hold the same
\* process.
C17_OneEntryPerSession ==
    /\ \A c \in conns :
          procs[c.proc].termCalls = 0
             => /\ c.sid \in DOMAIN active_sessions
                /\ active_sessions[c.sid] = c.proc
    /\ \A c, d \in conns : c # d => c.sid # d.sid /\ c.proc # d.proc
    /\ \A sid, tid \in DOMAIN active_sessions :
          sid # tid => active_sessions[sid] # active_sessions[tid]

\* Two sessions of one user are open at once, each with its entry.
C17_Witness ==
    \E c, d \in conns :
        /\ c # d
        /\ c.user = d.user
        /\ c.pc = "bridge" /\ d.pc = "bridge"
        /\ Registered(c.proc) /\ Registered(d.proc)

\* C18: a process is written the frames of its own session only, and a
\* connection is sent the output of its own process only.
C18_FlowsStayApart ==
    /\ \A p \in Pids : procs[p].input \subseteq {p}
    /\ \A c \in conns : c.got \subseteq {c.proc}

\* Two sessions are open at once, and frames and output have gone through
\* both.
C18_Witness ==
    \E c, d \in conns :
        /\ c # d
        /\ c.got # {} /\ d.got # {}
        /\ procs[c.proc].input # {} /\ procs[d.proc].input # {}

\* C19: no two sessions, open at the same time or one after the other, are
\* given the same id.
C19_SessionIdsUnique ==
    \A p, q \in Pids : p # q => procs[p].sid # procs[q].sid

---------------------------------------------------------------------------
(* Claims on the tenant roots *)

\* C20: after a file-manager operation of a tenant, whatever its path
\* arguments, the tenant's root directory exists.
C20_RootKept ==
    fileOp.op # "none" =>
        (UserDir(fileOp.user) \in DOMAIN fs /\ IsDirAt(fs, UserDir(fileOp.user)))

---------------------------------------------------------------------------
(* Claims on the isolated environments *)

\* A step that answered a create_virtualenv or install_requirements request.
EnvAnswered == dep'.n = dep.n + 1

\* The script of the request that a step answered, and its environment.
AskedScript == Join(UserDir(dep'.user), dep'.path)

\* C22: a create_virtualenv request for an existing script whose environment
\* location holds an environment is answered 400 (it already exists), no
\* process is launched and the filesystem stays as it was.
C22_ExistingEnvRefused ==
    [][(/\ EnvAnswered
        /\ dep'.op = "create_virtualenv"
        /\ ScriptRefusal(fs, dep'.user, dep'.path) = 0
        /\ Exists(fs, VenvPath(AskedScript)))
           => /\ dep'.status = 400
              /\ dep'.kind = "AlreadyExists"
              /\ ~dep'.launched
              /\ fs' = fs]_vars

\* A create_virtualenv request met an environment and was refused.
C22_Witness ==
    /\ dep.op = "create_virtualenv"
    /\ dep.status = 400
    /\ dep.kind = "AlreadyExists"
    /\ dep.venv \in DOMAIN fs
    /\ PipPath(dep.venv) \in DOMAIN fs

\* C23: two different scripts are never worked on with the same environment:
\* the environment made for, or installed into for, one script is not that
\* of another script, also when both lie in one directory.
C23_OneEnvPerScript ==
    \A a, b \in dep.uses : a.script # b.script => a.venv # b.venv

\* C25: the failure kinds that create_virtualenv and install_requirements
\* answer with have a status each: two answers of different kinds never
\* bear the same status.
C25_OneCodePerKind ==
    \A a, b \in dep.seen : a.kind # b.kind => a.status # b.status

\* What the handler of the request that a step answered does when the
\* activity log saves the entry.
WhenLogged ==
    IF dep'.op = "create_virtualenv"
    THEN CreateVirtualEnvironment(fs, dep'.user, dep'.path, dep'.outcome, "saved")
    ELSE InstallRequirements(fs, dep'.user, dep'.path, dep'.outcome, "saved")

\* C26: whatever init_db() or save() does inside log_activity, a request is
\* answered as it is when the entry is saved, and leaves the same filesystem
\* and the same child processes launched.
C26_LogFailureChangesNothing ==
    [][EnvAnswered
          => LET logged == WhenLogged
             IN /\ dep'.status = logged.status
                /\ dep'.kind = logged.kind
                /\ dep'.launched = logged.launched
                /\ fs' = logged.fs]_vars

\* A request reached log_activity while the log could not be written:
\* requirements were installed and the request was answered 200.
C26_Witness ==
    /\ dep.op = "install_requirements"
    /\ dep.log \in LogOutcomes \ {"saved"}
    /\ dep.status = 200
    /\ dep.launched

\* A step in which a handler answers 403, the answer of a rejecting check.
RunRejected ==
    run.pc = "idle" /\ run'.pc = "done" /\ run'.resp.status = 403

EnvRejected == EnvAnswered /\ dep'.status = 403

ScheduleRejected == Started /\ NewReq.op = "schedule" /\ NewReq.status = 403

\* A step that leaves every node of the filesystem as it was and makes
\* nothing but a tenant root (get_user_dir).
OnlyRootsMade ==
    /\ \A q \in DOMAIN fs : q \in DOMAIN fs' /\ fs'[q] = fs[q]
    /\ \A q \in DOMAIN fs' \ DOMAIN fs : \E u \in Tenants : q = UserDir(u)

\* C30: when the check rejects the script path of a run_script,
\* create_virtualenv, install_requirements or schedule_script request, the
\* request is over with its 403: no child process is launched, no
\* requirements.txt, wrapper or other file is written, no install of a
\* crontab is pending, and the crontab is as it was.
C30_CheckBeforeEffects ==
    [][(RunRejected \/ EnvRejected \/ ScheduleRejected)
          => /\ OnlyRootsMade
             /\ crontab' = crontab
             /\ wrappers' = wrappers
             /\ run'.child = NoChild /\ ~run'.tmp
             /\ EnvRejected => (~dep'.launched /\ dep'.wrote = {})
             /\ ScheduleRejected => NewReq.pc = "done"]_vars

\* An install_requirements request for a path outside the tenant root was
\* answered 403.
C30_Witness ==
    /\ dep.op = "install_requirements"
    /\ dep.status = 403
    /\ ~IsSafePath(Join(UserDir(dep.user), dep.path), UserDir(dep.user))
    /\ ~dep.launched
    /\ dep.wrote = {}

---------------------------------------------------------------------------
(* Claims on the listing of the schedule *)

\* The line that a schedule request wrote, and whether the crontab that a
\* listing read holds it.
EntryLine(r) == SubSeq(reqs[r].entry, 1, Len(reqs[r].entry) - 1)

Listed == {listing.scheduled_scripts[k] : k \in 1..Len(listing.scheduled_scripts)}

StillPresent(r) ==
    /\ reqs[r].op = "schedule"
    /\ reqs[r].status = 200
    /\ \E k \in 1..Len(LinesOf(listing.read)) : LinesOf(listing.read)[k] = EntryLine(r)

\* C24: a listing holds, for every entry that a successful schedule request
\* wrote and that is still in the crontab, one record with the name, the cron
\* expression and the script path of the request; a marked line whose script
\* path cannot be recovered is not reported.
C24_ListRoundTrip ==
    (listing.asked /\ listing.status = 200)
        => /\ \A r \in Rids :
                 StillPresent(r)
                    => \E rec \in Listed :
                          /\ rec.name = reqs[r].name
                          /\ rec.cron_expression = CronOf(reqs[r])
                          /\ rec.script_path = reqs[r].script
           /\ \A rec \in Listed : rec.script_path # <<"Unknown">>

\* C27: a listing holds no record of an entry that another tenant scheduled:
\* when the crontab holds the entry of another tenant's request and no entry
\* of the requester under the same name, no record of the listing bears that
\* name.
C27_ListOnlyOwnEntries ==
    (listing.asked /\ listing.status = 200)
        => \A r \in Rids :
              (/\ StillPresent(r)
               /\ reqs[r].user # listing.requester
               /\ ~\E q \in Rids : /\ StillPresent(q)
                                    /\ reqs[q].user = listing.requester
                                    /\ reqs[q].name = reqs[r].name)
                 => ~\E rec \in Listed : rec.name = reqs[r].name

\* ---------------------------------------------------------------------
\* Claims on the lifecycle of a terminal session
\* ---------------------------------------------------------------------

\* A flow of the session of process p is still bridging.
Bridging(p) == \E c \in conns : c.proc = p /\ c.pc = "bridge"

\* How far the session of process p has come: 0 before its process is
\* spawned, 1 while it is registered and bridged, 2 while it is registered
\* with its flows ended, 3 once the registry no longer holds it.
Lifecycle(p) ==
    IF p \notin Pids THEN 0
    ELSE IF ~Registered(p) THEN 3
    ELSE IF Bridging(p) THEN 1
    ELSE 2

\* C31: no step moves a session back in its lifecycle: a session that has
\* left the registry is never registered again and a session whose flows
\* have ended is never bridged again, also when its id is given to a later
\* session.
C31_LifecycleForward ==
    [][\A p \in 1..MaxSessions : Lifecycle(p)' >= Lifecycle(p)]_vars

\* A session has left the registry and a later session is registered under
\* the id it had.
C31_Witness ==
    \E p, q \in Pids :
        /\ p # q
        /\ procs[p].sid = procs[q].sid
        /\ Lifecycle(p) = 3
        /\ Lifecycle(q) = 1

\* C32: a session that has been registered and is out of the registry has a
\* process that has exited.
C32_RemovedAfterExit ==
    \A p \in Pids : ~Registered(p) => procs[p].state = "exited"

\* The delete of the step took an entry that the registry held, and the
\* process of the entry was signalled in the same step.
DeletedInStep(sid) ==
    /\ sid \in DOMAIN active_sessions
    /\ sid \notin DOMAIN active_sessions'
    /\ procs'[active_sessions[sid]].termCalls =
          procs[active_sessions[sid]].termCalls + 1

\* C34: the test of the registry and the terminate and delete that follow
\* it are one step: a step deletes at most one entry, an entry that was
\* there, with its process signalled in that step; a process is not
\* signalled by both the kill request and the cleanup, and a process that
\* is signalled loses its entry in the same step.
C34_RegistrySerialized ==
    /\ [](\A p \in Pids : procs[p].termCalls <= 1)
    /\ [][/\ \A sid, tid \in DOMAIN active_sessions \ DOMAIN active_sessions' :
                sid = tid /\ DeletedInStep(sid)
          /\ \A p \in Pids :
                procs'[p].termCalls # procs[p].termCalls
                   => /\ Registered(p)
                      /\ procs[p].sid \notin DOMAIN active_sessions']_vars

\* A session was ended by a kill request and its cleanup has run since;
\* another session was ended by its own cleanup.
C34_Witness ==
    \E p, q \in Pids :
        /\ p # q
        /\ procs[p].ownerKilled
        /\ procs[p].termCalls = 1
        /\ ~Bridging(p) /\ ~FlowEnded(p)
        /\ ~procs[q].ownerKilled
        /\ procs[q].termCalls = 1
        /\ ~Registered(q)

\* C33: the input of the process holds the frames that do not start with
\* the resize prefix, unchanged and in the order they arrived, and no frame
\* that starts with it.
C33_ResizeConsumed ==
    inbound.stdin =
        SelectSeq(inbound.recv, LAMBDA m : ~StartsWith(m, ResizePrefix))

\* ---------------------------------------------------------------------
\* Claims on the entries of other names, scripts and tenants
\* ---------------------------------------------------------------------

\* The line is a line of the crontab.
InTable(current, line) ==
    \E k \in 1..Len(LinesOf(current)) : LinesOf(current)[k] = line

\* The entry that schedule request q wrote is a line of the crontab.
EntryOf(q, current) ==
    /\ reqs[q].op = "schedule"
    /\ reqs[q].status = 200
    /\ InTable(current, EntryLine(q))

\* Request r installs the crontab it computed from the crontab as it is.
InstallsInTurn(r) ==
    /\ Installing(r)
    /\ reqs'[r].status = 200
    /\ crontab = reqs[r].read

\* C35: a schedule or unschedule request that is served on its own leaves
\* the entries of every other name in the crontab, also when its name is a
\* part of the other name.
C35_OnlyNamedEntry ==
    [][\A r, q \in Rids :
          (/\ InstallsInTurn(r)
           /\ reqs[q].name # reqs[r].name
           /\ EntryOf(q, crontab))
             => InTable(crontab', EntryLine(q))]_vars

\* C36: a schedule request is answered 400 for its cron expression exactly
\* when the expression has not five fields. A request answered so has
\* written no wrapper and has neither read nor replaced the crontab; a
\* request that went on has five fields before the wrapper path, whatever
\* the fields are.
C36_FiveFieldsOrRefused ==
    /\ [](\A r \in Rids :
            reqs[r].op = "schedule"
               => /\ reqs[r].status = 400
                     => /\ Len(reqs[r].entry) # 5
                        /\ reqs[r].pc = "done"
                        /\ reqs[r].read = NoCrontab
                        /\ reqs[r].new = NoCrontab
                  /\ reqs[r].user # <<>>
                     => /\ reqs[r].status # 400
                        /\ reqs[r].entry[6] = WrapperPath(reqs[r].user)
                        /\ \A i \in 1..5 : reqs[r].entry[i] \in {"*", "70"})
    /\ [][(Started /\ NewReq.op = "schedule" /\ NewReq.status = 400)
             => wrappers' = wrappers /\ crontab' = crontab]_vars

\* A request with four fields was answered 400 and a request with the
\* expression 70 * * * * was installed.
C36_Witness ==
    \E r, q \in Rids :
        /\ reqs[r].op = "schedule"
        /\ reqs[r].status = 400
        /\ reqs[q].op = "schedule"
        /\ reqs[q].status = 200
        /\ CronOf(reqs[q]) = <<"70", "*", "*", "*", "*">>

\* C37: the wrapper that an entry of the crontab points to keeps the
\* environment it was written with when a schedule request of another name
\* is accepted, also for the same script.
C37_WrapperKeepsEnv ==
    [][(Started /\ NewReq.op = "schedule" /\ NewReq.pc = "install")
          => \A q \in Rids :
                (EntryOf(q, crontab) /\ reqs[q].name # NewReq.name)
                   => wrappers'[WrapperPath(reqs[q].user)]
                         = wrappers[WrapperPath(reqs[q].user)]]_vars

\* C38: a schedule request of one tenant that is served on its own leaves
\* in the crontab the entry that another tenant created under the same
\* name.
C38_OtherTenantsEntryKept ==
    [][\A r, q \in Rids :
          (/\ InstallsInTurn(r)
           /\ reqs[r].op = "schedule"
           /\ reqs[q].name = reqs[r].name
           /\ reqs[q].user # reqs[r].user
           /\ EntryOf(q, crontab))
             => InTable(crontab', EntryLine(q))]_vars

\* ---------------------------------------------------------------------
\* Claims on the extraction of archives
\* ---------------------------------------------------------------------

\* An entry of the archive, joined with the extraction directory, is
\* outside the root of the tenant.
EntryEscapes ==
    \E i \in 1..Len(fileOp.names) :
        ~Inside(UserDir(fileOp.user),
                Normpath(Join(fileOp.extract_path, fileOp.names[i])))

\* C39: an extraction with an entry that resolves outside the root of the
\* tenant is rejected and writes no entry; any other extraction that is
\* answered 200 has written its entries inside the root.
C39_ExtractAllOrNothing ==
    fileOp.op = "extract"
       => /\ EntryEscapes => fileOp.status # 200 /\ fileOp.written = {}
          /\ (~EntryEscapes /\ fileOp.status = 200)
                => \A w \in fileOp.written : Inside(UserDir(fileOp.user), w)

===========================================================================
